---- MODULE Spec2Model ----
(***************************************************************************)
(* A model of CreateWOBJ (src/Main.cpp and the headers it uses): the index *)
(* format chosen from the vertex count, the skeletal binder of loadMesh,   *)
(* the scene flattener loadTree and the keyframe compressor of             *)
(* writeVectorArray / writeQuatArray.  Each component has a specification  *)
(* of its own (SpecIndex, SpecBind, SpecTree, SpecAnim) over the shared    *)
(* variables; a component that a specification does not run stays idle.    *)
(***************************************************************************)
EXTENDS Integers, Sequences, FiniteSets, TLC

VARIABLES
    \* ---- IndexFormat / IndexBuffer (src/VertexFormat.h) ----
    ipc,            \* "new" | "format" | "buffer": how far loadScene line 228 got
    vertex_count,   \* the argument of IndexFormat::IndexFormat
    bpi,            \* IndexFormat::bpi, bytes per index
    indices,        \* IndexBuffer::data, as the sequence of stored indices
    \* ---- the imported scene graph and loadTree (src/Main.cpp:148-153) ----
    scene,          \* aiScene's node tree: [n, parent, name, meshes]
    tpc,            \* "idle" | "start" | "run": the flattening part of loadScene
    nodes,          \* std::vector<std::pair<const aiNode*, int>> nodes
    tindex,         \* int index of loadScene line 242, threaded through loadTree
    node_map,       \* std::unordered_map<std::string, int> node_map
    stack,          \* the pending loadTree calls, innermost first: [node, cur]
    \* ---- writeVectorArray / writeQuatArray (src/Main.cpp:170-200) ----
    apc,            \* "idle" | "loop" | "written"
    kind,           \* "vec" (aiVectorKey*, position or scale) | "quat" (aiQuatKey*)
    track,          \* the channel's key array as imported
    keys,           \* the keys argument of the running call: [t, v] per key
    ki,             \* the loop variable i of lines 172 / 186
    ar,             \* std::vector<uint> ar: the indices retained so far
    out,            \* what the call wrote: [len, keys]
    pass,           \* 1: the export's call; 2: a call on the keys that one wrote
    \* ---- the skeletal binder of loadMesh (src/Main.cpp:96-136) ----
    bpc,            \* "idle" | "mesh" (in generateMesh) | "bones" | "static"
    bones,          \* BoneData::bones: name -> [id, transform]
    bindex,         \* int index of loadScene line 229, the next bone id
    refs,           \* the names looked up in the table so far, in order
    meshNo,         \* the number of loadMesh calls begun
    curNode,        \* the name argument of loadMesh: node->mName
    entry,          \* the bone loop's b: mesh->mBones entries taken so far
    bidx,           \* bidx: the id the latest lookup yielded (lines 59, 101)
    lastV,          \* the last vertex the entry at hand gave a weight to
    vIdx,           \* BONE_IDX of the mesh's vertices: vertex -> 4 ids
    vWt,            \* BONE_WEIGHT of the mesh's vertices: vertex -> [w, den]
    contrib,        \* what the mesh's weight lists said of each vertex so far
    \* ---- loadAnimation (src/Main.cpp:203-216) ----
    cpc,            \* "idle" | "ready" (between animations) | "channels"
    NO_SCALE,       \* bool NO_SCALE (line 202, set by main line 261)
    chan_map,       \* the node_map argument: node name -> node index
    animNo,         \* the number of loadAnimation calls begun
    numChannels,    \* anim->mNumChannels
    chi,            \* the loop variable i of line 206
    channelCount,   \* the int written by line 205
    nblocks,        \* the channel blocks written after it so far
    block,          \* the channel block written last: [node, pos, rot, scale]
    \* ---- the vertex layout of loadScene and its use by loadMesh ----
    lpc,            \* "idle" | "scene" | "format" | "vertices" | "done" | "crashed"
    mNumAnimations, \* aiScene::mNumAnimations (unsigned int)
    meshFlags,      \* the mesh's HasNormals(), HasTextureCoords(0), HasBones()
    nAnim,          \* short nAnim of line 226
    format,         \* VertexFormat format: [attributes, bpv]
    accessed,       \* the attribute indices loadMesh passed to vertices.get/set
    \* ---- getVertexCount and generateMesh / loadMesh (lines 37-43, 76-146) ----
    kpc,            \* "idle" | "count" | "generate" | "written"
    mscene,         \* the node tree with its mesh references: [n, parent, refs]
    pending,        \* the nodes the running traversal has still to visit
    vcount,         \* int vcount of loadScene
    icount,         \* int icount of loadScene
    voff,           \* int voff of loadScene
    ioff,           \* int ioff of loadScene
    vFilled,        \* the vertex slots loadMesh has set
    iFilled,        \* the index slots loadMesh has set
    \* ---- main (src/Main.cpp:260-278) ----
    mpc,            \* "idle" | "noscale" | "writemeshes" | "usage" | "import" |
                    \* "open" | "export" | "return" | "exited"
    argv,           \* argv[1 ..]: the arguments after the program's name
    argc,           \* int argc
    WRITE_MESHES,   \* bool WRITE_MESHES (line 202)
    imported,       \* what aiImportFile returned: "unknown" | "null" | "scene"
    opened,         \* file.is_open(): "unknown" | "no" | "yes"
    status,         \* the value main returned, "none" before it returns
    \* ---- the bounds of loadMesh (lines 81-84) and loadScene (229-236) ----
    gpc,            \* "idle" | "vertices" | "written"
    srcVerts,       \* mesh->mVertices of the scene's one mesh
    nodeTransform,  \* node->mTransformation of the mesh's node
    gi,             \* the loop variable i of line 81
    bounds,         \* BBox3D<double> bounds: [botLeft, topRight]
    emitted,        \* the POSITION values set in the vertex buffer so far
    \* ---- normalizeValue (src/NormalizeValue.h) ----
    npc,            \* "idle" | "int" | "float" | "back"
    ntype,          \* the integer type: [bytes, signed]
    nx,             \* the value x of that type
    nfloat,         \* normalizeValue<T,float>(x)
    nback,          \* normalizeValue<float,T> of that float
    \* ---- half_float (src/half_float.h, src/ieee754_2008.h) ----
    hpc,            \* "idle" | "float" | "half" | "back"
    hval,           \* the float handed to half_float(float)
    hbits,          \* IEEE754_half value: [sign, e, mantissa]
    hback,          \* float(half_float): the float read back
    \* ---- the faces loadMesh writes to the index buffer (lines 92-95) ----
    fmeshes,        \* mNumVertices of the meshes generateMesh loads, in order
    fmesh,          \* the number of loadMesh calls that have returned
    fvoff,          \* int voff of loadScene line 222
    fargs,          \* the values handed to indices.set, in order
    \* ---- the bones the vertices use and the node table (lines 240-252) ----
    skpc,           \* "idle" | "generate" | "table" | "written"
    skNodes,        \* the nodes in generateMesh's order, each with its mesh
    skNext,         \* the number of nodes generateMesh has been through
    skVerts,        \* BONE_IDX and BONE_WEIGHT of the vertices emitted so far
    skTable         \* the boneId written for each node of the table

idxVars == <<ipc, vertex_count, bpi, indices>>
treeVars == <<scene, tpc, nodes, tindex, node_map, stack>>

animVars == <<apc, kind, track, keys, ki, ar, out, pass>>

bindVars == <<bpc, bones, bindex, refs, meshNo, curNode, entry, bidx, lastV,
              vIdx, vWt, contrib>>

chanVars == <<cpc, NO_SCALE, chan_map, animNo, numChannels, chi, channelCount,
              nblocks, block>>

\* The variables of the components further down.
layoutVars == <<lpc, mNumAnimations, meshFlags, nAnim, format, accessed>>

countVars == <<kpc, mscene, pending, vcount, icount, voff, ioff, vFilled, iFilled>>

mainVars == <<mpc, argv, argc, WRITE_MESHES, imported, opened, status>>

boundsVars == <<gpc, srcVerts, nodeTransform, gi, bounds, emitted>>

normVars == <<npc, ntype, nx, nfloat, nback>>

halfVars == <<hpc, hval, hbits, hback>>

\* The variables of the components after normalizeValue.
faceVars == <<fmeshes, fmesh, fvoff, fargs>>

skelVars == <<skpc, skNodes, skNext, skVerts, skTable>>

restVars == <<halfVars, faceVars, skelVars>>

laterVars == <<chanVars, layoutVars, countVars, mainVars, boundsVars, normVars,
               restVars>>

vars == <<idxVars, treeVars, animVars, bindVars, laterVars>>

(***************************************************************************)
(* Small helpers.                                                          *)
(***************************************************************************)
RECURSIVE Pow2(_)
Pow2(n) == IF n = 0 THEN 1 ELSE 2 * Pow2(n - 1)

Abs(x) == IF x < 0 THEN -x ELSE x

(***************************************************************************)
(* IndexFormat and IndexBuffer.                                            *)
(***************************************************************************)
\* Distance explored on each side of the two width thresholds.
Margin == 2
\* Number of index slots of the modelled IndexBuffer.
MaxIndices == 1

uchar_max == 255
ushort_max == 65535

VertexCounts ==
    (0 .. Margin) \cup ((uchar_max - Margin) .. (uchar_max + 1 + Margin))
                  \cup ((ushort_max - Margin) .. (ushort_max + 1 + Margin))

\* A mutation of IndexWidth: the thresholds lie two counts too high.
IndexWidthLate(vc) ==
    IF vc < uchar_max + 3 THEN 1 ELSE IF vc < ushort_max + 3 THEN 2 ELSE 4

\* A mutation of IndexWidth: the thresholds taken as "fits in 2^8 / 2^16".
IndexWidthPow2(vc) ==
    IF vc < uchar_max + 1 THEN 1 ELSE IF vc < ushort_max + 1 THEN 2 ELSE 4

\* IndexFormat::IndexFormat(int vertex_count): the bpi it sets.
IndexWidth(vc) ==
    IF vc < uchar_max THEN 1 ELSE IF vc < ushort_max THEN 2 ELSE 4

\* IndexFormat::setIndex<TYPE>: a[0] = (TYPE)value, TYPE of bpi bytes; the value
\* is a uint, which the 4-byte cast keeps as it is.
StoredIndex(width, value) ==
    IF width >= 4 THEN value ELSE value % Pow2(8 * width)

\* The state of a component that the specification at hand does not run.
IdleIndex == ipc = "idle" /\ vertex_count = 0 /\ bpi = 0 /\ indices = << >>

IdleTree ==
    /\ scene = [n |-> 0, parent |-> << >>, name |-> << >>, meshes |-> << >>]
    /\ tpc = "idle" /\ nodes = << >> /\ tindex = 0
    /\ node_map = << >> /\ stack = << >>

IdleAnim ==
    /\ apc = "idle" /\ kind = "vec" /\ track = << >> /\ keys = << >>
    /\ ki = 0 /\ ar = << >> /\ out = [len |-> 0, keys |-> << >>] /\ pass = 0

IdleChan ==
    /\ cpc = "idle" /\ NO_SCALE = FALSE /\ chan_map = << >> /\ animNo = 0
    /\ numChannels = 0 /\ chi = 0 /\ channelCount = 0 /\ nblocks = 0
    /\ block = << >>

\* The components further down are not running.
IdleLayout ==
    /\ lpc = "idle" /\ mNumAnimations = 0 /\ meshFlags = << >> /\ nAnim = 0
    /\ format = << >> /\ accessed = {}

IdleCount ==
    /\ kpc = "idle" /\ mscene = << >> /\ pending = << >>
    /\ vcount = 0 /\ icount = 0 /\ voff = 0 /\ ioff = 0
    /\ vFilled = {} /\ iFilled = {}

IdleMain ==
    /\ mpc = "idle" /\ argv = << >> /\ argc = 0 /\ WRITE_MESHES = FALSE
    /\ imported = "unknown" /\ opened = "unknown" /\ status = "none"

IdleBounds ==
    /\ gpc = "idle" /\ srcVerts = << >> /\ nodeTransform = << >> /\ gi = 0
    /\ bounds = << >> /\ emitted = << >>

IdleNorm ==
    /\ npc = "idle" /\ ntype = << >> /\ nx = 0 /\ nfloat = << >> /\ nback = 0

IdleHalf ==
    /\ hpc = "idle" /\ hval = << >> /\ hbits = << >> /\ hback = << >>

IdleFaces == fmeshes = << >> /\ fmesh = 0 /\ fvoff = 0 /\ fargs = << >>

IdleSkel ==
    skpc = "idle" /\ skNodes = << >> /\ skNext = 0 /\ skVerts = {} /\ skTable = << >>

IdleRest == IdleHalf /\ IdleFaces /\ IdleSkel

IdleLater ==
    /\ IdleChan /\ IdleLayout /\ IdleCount /\ IdleMain /\ IdleBounds /\ IdleNorm
    /\ IdleRest

IdleBind ==
    /\ bpc = "idle" /\ bones = << >> /\ bindex = 0 /\ refs = << >>
    /\ meshNo = 0 /\ curNode = "" /\ entry = 0 /\ bidx = 0 /\ lastV = 0
    /\ vIdx = << >> /\ vWt = << >> /\ contrib = << >>

InitIndex ==
    /\ IdleTree /\ IdleAnim /\ IdleBind /\ IdleLater
    /\ ipc = "new"
    /\ vertex_count \in VertexCounts
    /\ bpi = 0
    /\ indices = << >>

\* IndexFormat iformat(vcount);
NewIndexFormat ==
    /\ ipc = "new"
    /\ bpi' = IndexWidth(vertex_count)
    /\ ipc' = "format"
    /\ UNCHANGED <<vertex_count, indices, treeVars, animVars, bindVars, laterVars>>

\* IndexBuffer indices(&iformat, icount): zero-filled by memset.
NewIndexBuffer ==
    /\ ipc = "format"
    /\ \E count \in 1 .. MaxIndices : indices' = [k \in 1 .. count |-> 0]
    /\ ipc' = "buffer"
    /\ UNCHANGED <<vertex_count, bpi, treeVars, animVars, bindVars, laterVars>>

\* IndexBuffer::set(i, value) -> format->set(offset(i), value).
IndexBufferSet ==
    /\ ipc = "buffer"
    /\ \E i \in 1 .. Len(indices), value \in VertexCounts :
          indices' = [indices EXCEPT ![i] = StoredIndex(bpi, value)]
    /\ UNCHANGED <<ipc, vertex_count, bpi, treeVars, animVars, bindVars, laterVars>>

NextIndex == NewIndexFormat \/ NewIndexBuffer \/ IndexBufferSet

SpecIndex == InitIndex /\ [][NextIndex]_vars

(***************************************************************************)
(* C1 (as stated): the index width is 1 byte below 256 vertices, 2 bytes   *)
(* below 65536 vertices and 4 bytes from there on, so that 255 vertices    *)
(* take 1 byte and 65535 vertices take 2.                                  *)
(***************************************************************************)
C1_AsStated ==
    ipc # "new" =>
        bpi = (IF vertex_count < 256 THEN 1
               ELSE IF vertex_count < 65536 THEN 2 ELSE 4)

(***************************************************************************)
(* C1 (amended): the index width is 1 byte when the vertex count is below  *)
(* 255 (uchar_max), 2 bytes when it is below 65535 (ushort_max) and 4      *)
(* bytes otherwise: the counts 0, 255, 256, 65535, 65536 give the widths   *)
(* 1, 2, 2, 4, 4.                                                           *)
(***************************************************************************)
C1_IndexWidth ==
    ipc # "new" =>
        /\ (vertex_count < 255 => bpi = 1)
        /\ (vertex_count >= 255 /\ vertex_count < 65535 => bpi = 2)
        /\ (vertex_count >= 65535 => bpi = 4)
        /\ (vertex_count = 0 => bpi = 1)
        /\ (vertex_count = 255 => bpi = 2)
        /\ (vertex_count = 256 => bpi = 2)
        /\ (vertex_count = 65535 => bpi = 4)
        /\ (vertex_count = 65536 => bpi = 4)

\* A format built for exactly 255 vertices: the first count the thresholds
\* of the statement and of the code disagree on.
C1_Witness == ipc = "format" /\ vertex_count = 255 /\ bpi = 2

(***************************************************************************)
(* The scene graph and its flattening by loadTree.                         *)
(***************************************************************************)
\* Largest number of nodes of an imported tree.
MaxTreeNodes == 6
\* Trees of at most this many nodes are taken with every choice of node names
\* and mesh counts; larger trees have distinct names and no meshes.
MaxNamedNodes == 3

TreeNames == {"a", "b"}

RECURSIVE IsAncestorOrSelf(_, _, _)
\* Whether node a is node d or one of its ancestors (aiNode::mParent chain).
IsAncestorOrSelf(par, a, d) ==
    IF a = d THEN TRUE
    ELSE IF d <= 1 THEN FALSE
    ELSE IsAncestorOrSelf(par, a, par[d])

\* The tree shapes of n nodes: node 1 is the root (parent 0), the nodes are
\* numbered in depth-first pre-order and the children of a node are ordered
\* by their number (aiNode::mChildren).
TreeShapes(n) ==
    { par \in [1 .. n -> 0 .. n] :
        /\ par[1] = 0
        /\ \A i \in 2 .. n : par[i] >= 1 /\ par[i] < i
                             /\ IsAncestorOrSelf(par, par[i], i - 1) }

TreeScenes ==
    UNION { IF n <= MaxNamedNodes
            THEN { [n |-> n, parent |-> par, name |-> nm, meshes |-> ms] :
                     par \in TreeShapes(n), nm \in [1 .. n -> TreeNames],
                     ms \in [1 .. n -> 0 .. 1] }
            ELSE { [n |-> n, parent |-> par,
                    name |-> [i \in 1 .. n |-> ToString(i)],
                    meshes |-> [i \in 1 .. n |-> 0]] : par \in TreeShapes(n) }
          : n \in 1 .. MaxTreeNodes }

\* node->mChildren as a sequence, node->mNumChildren its length.
Children(node) ==
    LET kids == { i \in 1 .. scene.n : scene.parent[i] = node }
        Nth[k \in 1 .. Cardinality(kids)] ==
            CHOOSE i \in kids : Cardinality({ j \in kids : j < i }) = k - 1
    IN  [k \in 1 .. Cardinality(kids) |-> Nth[k]]

NumChildren(node) == Cardinality({ i \in 1 .. scene.n : scene.parent[i] = node })

RECURSIVE Depth(_)
Depth(node) == IF scene.parent[node] = 0 THEN 0 ELSE 1 + Depth(scene.parent[node])

\* int index = 1 (loadScene line 242): the first slot after the root's.
FirstIndex == 1

\* A mutation of AfterBlock: the counter is not advanced past the block.
AfterBlockNone(index, len) == index

\* A mutation of AfterBlock: the block reserved is one slot short.
AfterBlockShort(index, len) == IF len > 0 THEN index + len - 1 ELSE index

\* index += len: the children's block is reserved before any child is visited.
AfterBlock(index, len) == index + len

\* A mutation of ChildSlot: every child gets the first slot of the block.
ChildSlotFirst(childIdx, i) == childIdx

\* A mutation of ChildSlot: the block's start is forgotten.
ChildSlotNoBase(childIdx, i) == i

\* The cur argument of the recursive call for child i (0-based): childIdx+i.
ChildSlot(childIdx, i) == childIdx + i

\* if(nodes.size() <= cur) nodes.resize(cur+1); nodes[cur] = make_pair(node, childIdx)
\* (a slot that resize adds holds the pair (NULL, 0); NULL is node 0 here).
StoreNode(vec, cur, node, childIdx) ==
    LET grown == IF Len(vec) <= cur
                 THEN [k \in 1 .. cur + 1 |->
                         IF k <= Len(vec) THEN vec[k] ELSE [node |-> 0, childIdx |-> 0]]
                 ELSE vec
    IN  [grown EXCEPT ![cur + 1] = [node |-> node, childIdx |-> childIdx]]

\* A mutation of MapNode: the test node_map.find(..) == node_map.end() is
\* missing.
MapNodeOverwrite(map, node, cur) ==
    IF scene.meshes[node] = 0
    THEN [n \in DOMAIN map \cup {scene.name[node]} |->
            IF n = scene.name[node] THEN cur ELSE map[n]]
    ELSE map

\* Line 150: a node without meshes enters node_map unless its name is there.
MapNode(map, node, cur) ==
    IF scene.meshes[node] = 0 /\ scene.name[node] \notin DOMAIN map
    THEN map @@ (scene.name[node] :> cur)
    ELSE map

InitTree ==
    /\ IdleIndex /\ IdleAnim /\ IdleBind /\ IdleLater
    /\ scene \in TreeScenes
    /\ tpc = "start" /\ nodes = << >> /\ tindex = 0
    /\ node_map = << >> /\ stack = << >>

\* loadScene lines 241-242: the empty vector and map, index = 1 and the call
\* loadTree(nodes, scene->mRootNode, 0, index, node_map, bones).
StartFlatten ==
    /\ tpc = "start"
    /\ tpc' = "run"
    /\ nodes' = << >>
    /\ node_map' = << >>
    /\ tindex' = FirstIndex
    /\ stack' = << [node |-> 1, cur |-> 0] >>
    /\ UNCHANGED <<scene, idxVars, animVars, bindVars, laterVars>>

\* One call of loadTree: lines 149-151, and the calls of line 152 left pending
\* in child order (each child's whole subtree runs before the next child).
LoadTree ==
    /\ tpc = "run"
    /\ stack # << >>
    /\ LET node == Head(stack).node
           cur == Head(stack).cur
           len == NumChildren(node)
           childIdx == tindex
           kids == Children(node)
       IN  /\ tindex' = AfterBlock(tindex, len)
           /\ node_map' = MapNode(node_map, node, cur)
           /\ nodes' = StoreNode(nodes, cur, node, childIdx)
           /\ stack' = [i \in 1 .. len |->
                          [node |-> kids[i], cur |-> ChildSlot(childIdx, i - 1)]]
                       \o Tail(stack)
    /\ UNCHANGED <<scene, tpc, idxVars, animVars, bindVars, laterVars>>

NextTree == StartFlatten \/ LoadTree

SpecTree == InitTree /\ [][NextTree]_vars

\* loadTree has returned to loadScene.
TreeDone == tpc = "run" /\ stack = << >>

\* The slots of the flattened array that hold a node.
Filled == { j \in 0 .. Len(nodes) - 1 : nodes[j + 1].node # 0 }

\* The slot of the array that holds a node (the slots hold distinct nodes).
SlotOf(node) == CHOOSE j \in Filled : nodes[j + 1].node = node

(***************************************************************************)
(* C6: in the flattened array, the first-child index recorded for the node *)
(* stored at index N is strictly greater than N.                           *)
(***************************************************************************)
C6_ChildIdxGreater ==
    \A j \in Filled : nodes[j + 1].childIdx > j

\* A finished flattening of a tree with inner nodes and leaves.
C6_Witness ==
    /\ TreeDone /\ scene.n >= 4
    /\ \E j \in Filled : NumChildren(nodes[j + 1].node) = 0
    /\ \E j \in Filled : j > 0 /\ NumChildren(nodes[j + 1].node) > 0

(***************************************************************************)
(* C7 (as stated): no two nodes of the flattened array have the same       *)
(* recorded child-block start index.                                       *)
(***************************************************************************)
C7_AsStated ==
    TreeDone =>
        \A j, k \in Filled : j # k => nodes[j + 1].childIdx # nodes[k + 1].childIdx

(***************************************************************************)
(* C7 (amended): no two nodes that have children record the same           *)
(* child-block start index (a childless node records the next free index,  *)
(* which the next node visited records too; it is never written out).      *)
(***************************************************************************)
C7_ParentsDistinct ==
    \A j, k \in Filled :
        (/\ j # k
         /\ NumChildren(nodes[j + 1].node) > 0
         /\ NumChildren(nodes[k + 1].node) > 0)
        => nodes[j + 1].childIdx # nodes[k + 1].childIdx

\* A finished flattening in which two nodes have children.
C7_Witness ==
    /\ TreeDone
    /\ \E j, k \in Filled :
          /\ j # k
          /\ NumChildren(nodes[j + 1].node) > 0
          /\ NumChildren(nodes[k + 1].node) > 0

(***************************************************************************)
(* C8 (as stated): the flattened array is in breadth-first order: the root *)
(* is at index 0 and a node at greater depth never has a smaller index     *)
(* than a node at lesser depth.                                            *)
(***************************************************************************)
C8_AsStated ==
    TreeDone =>
        /\ nodes[1].node = 1
        /\ \A j, k \in Filled :
              Depth(nodes[j + 1].node) > Depth(nodes[k + 1].node) => j >= k

(***************************************************************************)
(* C8 (amended): the root is at index 0 and every other node has a greater *)
(* index than its parent; the child blocks are reserved in depth-first     *)
(* pre-order, so a deeper node of an earlier subtree can precede a         *)
(* shallower node of a later one.                                          *)
(***************************************************************************)
C8_ParentFirst ==
    TreeDone =>
        /\ nodes[1].node = 1
        /\ \A node \in 2 .. scene.n :
              \E j, k \in Filled :
                 /\ nodes[j + 1].node = node
                 /\ nodes[k + 1].node = scene.parent[node]
                 /\ k < j

\* A finished flattening in which a node of depth 3 precedes one of depth 2.
C8_Witness ==
    /\ TreeDone
    /\ \E j, k \in Filled :
          /\ Depth(nodes[j + 1].node) > Depth(nodes[k + 1].node)
          /\ j < k

(***************************************************************************)
(* The keyframe compressor: writeVectorArray and writeQuatArray.           *)
(*                                                                         *)
(* Key values are fixed-point: a component is an integer number of units   *)
(* of 0.0000025 counted from an arbitrary base value, so the tolerance     *)
(* 0.00001 of lines 177-178 and 193-194 is EpsilonUnits = 4 units.  Key    *)
(* times are small integers.  interp (src/common.h:128) is a*(1-f)+b*f;    *)
(* it is evaluated exactly, with the division by the time span cleared.    *)
(* aiQuaternion::Interpolate is the importer library's: for the nearly     *)
(* parallel quaternions of this range (all within a few 0.00001 of each    *)
(* other) it interpolates linearly, component by component, as interp does.*)
(***************************************************************************)
\* Largest number of keys of a track.
MaxKeys == 3
\* Key times are drawn from 0 .. MaxTime.
MaxTime == 3
\* The first component of a key value is drawn from 0 .. MaxVal.
MaxVal == 5

EpsilonUnits == 4

\* The second component of a key value: at the base value, or far from it.
MinorVals == {0, 2 * EpsilonUnits}

KeyValues(kd) ==
    IF kd = "vec"
    THEN { <<x, y, 0>> : x \in 0 .. MaxVal, y \in MinorVals }
    ELSE { <<w, x, 0, 0>> : w \in 0 .. MaxVal, x \in MinorVals }

\* The key arrays of n keys: times strictly increasing, and at most one key
\* whose second component is away from the base value.
KeyArrays(kd, n) ==
    { ks \in [1 .. n -> [t : 0 .. MaxTime, v : KeyValues(kd)]] :
        /\ \A j \in 1 .. n - 1 : ks[j].t < ks[j + 1].t
        /\ Cardinality({ j \in 1 .. n : ks[j].v[2] # 0 }) <= 1 }

\* equalsFuzzy(a, b, d) of lines 168-169 with a - b given per component, each
\* scaled by den > 0: abs(a.c - b.c) < d for every component c.
AllWithin(diff, den) ==
    \A c \in DOMAIN diff : Abs(diff[c]) < EpsilonUnits * den

\* equalsFuzzy on two key values.
EqualsFuzzy(a, b) == AllWithin([c \in DOMAIN a |-> a[c] - b[c]], 1)

\* A mutation of PrevIndex: both writers interpolate from the sample
\* retained last.
PrevIndexRetained(kd, ret, i) == ret[Len(ret)]

\* The earlier sample an inner sample i (0-based) is interpolated from:
\* keys[i-1] in writeVectorArray (line 175), keys[ar[ar.size()-1]] in
\* writeQuatArray (line 189).
PrevIndex(kd, ret, i) == IF kd = "vec" THEN i - 1 ELSE ret[Len(ret)]

\* A mutation of PrevOfLast: both writers compare with keys[i-1].
PrevOfLastRaw(kd, ret, i) == i - 1

\* The sample the last sample is compared with (lines 178 and 194).
PrevOfLast(kd, ret, i) == IF kd = "vec" THEN i - 1 ELSE ret[Len(ret)]

\* Lines 175-177 / 189-193: the value interpolated between sample p and the
\* next raw sample i+1 at the time of sample i equals sample i fuzzily.
InteriorRedundant(kd, ks, ret, i) ==
    LET p == PrevIndex(kd, ret, i)
        from == ks[p + 1]
        to == ks[i + 2]
        k == ks[i + 1]
        num == k.t - from.t
        den == to.t - from.t
    IN  AllWithin([c \in DOMAIN k.v |->
                     from.v[c] * (den - num) + to.v[c] * num - k.v[c] * den], den)

\* Lines 178 / 194: the last sample equals the sample before it fuzzily.
LastRedundant(kd, ks, ret, i) ==
    EqualsFuzzy(ks[PrevOfLast(kd, ret, i) + 1].v, ks[i + 1].v)

\* A mutation of Skips: the last sample is always written.
SkipsKeepLast(kd, ks, ret, i) ==
    i > 0 /\ i < Len(ks) - 1 /\ InteriorRedundant(kd, ks, ret, i)

\* A mutation of Skips: the guard i > 0 of the last-sample test is missing
\* (a lone sample is compared with itself).
SkipsNoGuard(kd, ks, ret, i) ==
    IF i > 0 /\ i < Len(ks) - 1 THEN InteriorRedundant(kd, ks, ret, i)
    ELSE IF i = Len(ks) - 1
         THEN EqualsFuzzy(ks[(IF i > 0 THEN i - 1 ELSE 0) + 1].v, ks[i + 1].v)
         ELSE FALSE

\* Whether the loop body reaches "continue" for sample i, count = Len(ks).
Skips(kd, ks, ret, i) ==
    IF i > 0 /\ i < Len(ks) - 1 THEN InteriorRedundant(kd, ks, ret, i)
    ELSE IF i = Len(ks) - 1 /\ i > 0 THEN LastRedundant(kd, ks, ret, i)
    ELSE FALSE

\* Floats written per key: time and x,y,z (line 181); time and w,x,y,z (197).
FloatsPerKey(kd) == IF kd = "vec" THEN 4 ELSE 5

InitAnim ==
    /\ IdleIndex /\ IdleTree /\ IdleBind /\ IdleLater
    /\ apc = "loop"
    /\ kind \in {"vec", "quat"}
    /\ track \in UNION { KeyArrays(kind, n) : n \in 0 .. MaxKeys }
    /\ keys = track
    /\ ki = 0 /\ ar = << >> /\ out = [len |-> 0, keys |-> << >>] /\ pass = 1

\* One iteration of the loop of lines 172-179 / 186-195.
KeyStep ==
    /\ apc = "loop"
    /\ ki < Len(keys)
    /\ ar' = IF Skips(kind, keys, ar, ki) THEN ar ELSE Append(ar, ki)
    /\ ki' = ki + 1
    /\ UNCHANGED <<apc, kind, track, keys, out, pass, idxVars, treeVars, bindVars, laterVars>>

\* Lines 180-182 / 196-199: the length field and the retained keys.
WriteKeys ==
    /\ apc = "loop"
    /\ ki = Len(keys)
    /\ out' = [len |-> Len(ar) * FloatsPerKey(kind),
               keys |-> [j \in 1 .. Len(ar) |-> keys[ar[j] + 1]]]
    /\ apc' = "written"
    /\ UNCHANGED <<kind, track, keys, ki, ar, pass, idxVars, treeVars, bindVars, laterVars>>

\* The writer called again on the keys it wrote.
Recompress ==
    /\ apc = "written"
    /\ pass = 1
    /\ keys' = out.keys
    /\ ki' = 0 /\ ar' = << >>
    /\ pass' = 2
    /\ apc' = "loop"
    /\ UNCHANGED <<kind, track, out, idxVars, treeVars, bindVars, laterVars>>

NextAnim == KeyStep \/ WriteKeys \/ Recompress

SpecAnim == InitAnim /\ [][NextAnim]_vars

\* The indices the finished call retained.
Retained == { ar[j] : j \in 1 .. Len(ar) }

(***************************************************************************)
(* C9 (as stated): for every non-empty track the written keys contain the  *)
(* first input sample and the last input sample.                           *)
(***************************************************************************)
C9_AsStated ==
    (apc = "written" /\ Len(keys) > 0) =>
        /\ 0 \in Retained
        /\ (Len(keys) - 1) \in Retained

(***************************************************************************)
(* C9 (amended): for every non-empty track the written keys contain the    *)
(* first input sample; they contain the last input sample unless every     *)
(* component of it is within 0.00001 of the sample it is compared with:    *)
(* the sample before it (position, scale) or the most recently retained    *)
(* sample (rotation).                                                      *)
(***************************************************************************)
C9_FirstAndLast ==
    (apc = "written" /\ Len(keys) > 0) =>
        /\ 0 \in Retained
        /\ LET last == Len(keys) - 1
               before == IF kind = "vec" THEN last - 1
                         ELSE CHOOSE m \in Retained \ {last} :
                                \A q \in Retained \ {last} : q <= m
           IN  (last \notin Retained) <=>
                   (last > 0 /\ EqualsFuzzy(keys[before + 1].v, keys[last + 1].v))

\* The export's call wrote a track of three keys without the last one.
C9_Witness ==
    /\ apc = "written" /\ pass = 1 /\ Len(keys) = 3
    /\ 2 \notin Retained

(***************************************************************************)
(* C10 (as stated): running the compressor again on the samples it         *)
(* retained drops no further sample, for every track kind.                 *)
(***************************************************************************)
C10_AsStated ==
    (apc = "written" /\ pass = 2) => Len(ar) = Len(keys)

(***************************************************************************)
(* C10 (amended): for a track of at most two samples, running the          *)
(* compressor again on the samples it retained drops no further sample;    *)
(* for a longer track the second run can drop further samples.             *)
(***************************************************************************)
C10_ShortIdempotent ==
    (apc = "written" /\ pass = 2 /\ Len(track) <= 2) => Len(ar) = Len(keys)

\* A second run on the single key the first run left of two fuzzily equal keys.
C10_Witness ==
    /\ apc = "written" /\ pass = 2
    /\ Len(track) = 2 /\ Len(keys) = 1 /\ Len(ar) = 1

(***************************************************************************)
(* The skeletal binder: the part of loadMesh under scene->HasAnimations(), *)
(* with getNodeBone, over the meshes generateMesh hands to loadMesh.       *)
(*                                                                         *)
(* A mesh is read as the binder reads it: its node name and HasBones()     *)
(* when loadMesh begins, then one mBones entry after the other, each with  *)
(* its weights.  The binder treats every vertex on its own, so the vertices*)
(* followed are those of Vertices; the vertex buffer starts zero-filled    *)
(* (memset).  Weights are whole numbers of some unit and never negative    *)
(* (aiVertexWeight::mWeight lies in 0 .. 1); the division of line 126 is   *)
(* kept exact as the pair [w, den], the weights being w[c] / den.          *)
(* A transform is the name of what it was computed from.                   *)
(***************************************************************************)
\* Largest number of loadMesh calls of an export.
MaxMeshes == 2
\* Largest number of mBones entries of an export, all meshes together.
MaxEntries == 5

NodeNames == {"n1", "n2"}
Vertices == {1}
Weights == {0, 1, 2}

\* std::string(name.C_Str()) + "_auto" (lines 121 and 130).
AutoName(node) == node \o "_auto"

\* The names a mesh's next bone entry can carry: the next name no entry has
\* used yet, or the one used first.
EntryNames ==
    LET used == { k \in 1 .. MaxEntries : ("b" \o ToString(k)) \in DOMAIN bones }
    IN  { "b" \o ToString(Cardinality(used) + 1), "b1" }

Zero4 == <<0, 0, 0, 0>>

\* What bones.find(name) yields as the id: the entry's, or index for a new one
\* (lines 58-63 and 101-106).
LookupId(tab, index, name) ==
    IF name \in DOMAIN tab THEN tab[name].id ELSE index

\* A mutation of Registered: the entry is written on every lookup.
RegisteredOverwrite(tab, index, name, tr) ==
    [n \in DOMAIN tab \cup {name} |->
        IF n = name THEN [id |-> LookupId(tab, index, name), transform |-> tr]
        ELSE tab[n]]

\* The table after the lookup: bones.bones[name] = Bone(bidx, t) only in the
\* branch i == bones.bones.end() (lines 62 and 104).
Registered(tab, index, name, tr) ==
    IF name \in DOMAIN tab THEN tab
    ELSE tab @@ (name :> [id |-> index, transform |-> tr])

\* A mutation of IndexAfter: index++ is missing.
IndexAfterStuck(tab, index, name) == index

\* index after the lookup: index++ in the same branch.
IndexAfter(tab, index, name) ==
    IF name \in DOMAIN tab THEN index ELSE index + 1

\* A mutation of SlotFor: a full vertex gives up its last slot.
SlotForOverwrite(idx, wt, b) ==
    LET ok == { c \in 1 .. 4 : wt[c] = 0 \/ idx[c] = b }
    IN  IF ok = {} THEN 4 ELSE CHOOSE c \in ok : \A d \in ok : c <= d

\* Lines 111-113: the first slot c with wt[c] == 0 || idx[c] == bidx, as
\* 1 .. 4; 0 when there is none (minidx stays 4 and the weight is skipped).
SlotFor(idx, wt, b) ==
    LET ok == { c \in 1 .. 4 : wt[c] = 0 \/ idx[c] = b }
    IN  IF ok = {} THEN 0 ELSE CHOOSE c \in ok : \A d \in ok : c <= d

\* A mutation of NormSum: wt.w is left out of the sum.
NormSum3(w) == w[1] + w[2] + w[3]

\* wt.x+wt.y+wt.z+wt.w of line 126.
NormSum(w) == w[1] + w[2] + w[3] + w[4]

\* The record of a vertex's weights read so far, with one more: how many,
\* whether one was 0, and per bone id (in order of its first weight) the
\* weight it gave last.
Noted(c, b, w) ==
    [n |-> c.n + 1,
     zero |-> c.zero \/ w = 0,
     bones |-> IF \E k \in 1 .. Len(c.bones) : c.bones[k].id = b
               THEN [k \in 1 .. Len(c.bones) |->
                       IF c.bones[k].id = b THEN [id |-> b, w |-> w] ELSE c.bones[k]]
               ELSE Append(c.bones, [id |-> b, w |-> w])]

InitBind ==
    /\ IdleIndex /\ IdleTree /\ IdleAnim /\ IdleLater
    /\ bpc = "mesh" /\ bones = << >> /\ bindex = 0 /\ refs = << >>
    /\ meshNo = 0 /\ curNode = "" /\ entry = 0 /\ bidx = 0 /\ lastV = 0
    /\ vIdx = << >> /\ vWt = << >> /\ contrib = << >>

\* generateMesh line 143 calls loadMesh for the next mesh; lines 77-96 leave
\* the mesh's bone attributes as the zero-filled buffer has them.  The node
\* of the export's first mesh is the one called n1.
BeginMesh ==
    /\ bpc = "mesh"
    /\ meshNo < MaxMeshes
    /\ \E node \in (IF meshNo = 0 THEN {"n1"} ELSE NodeNames), hasBones \in BOOLEAN :
          /\ curNode' = node
          /\ bpc' = IF hasBones THEN "bones" ELSE "static"
    /\ vIdx' = [v \in Vertices |-> Zero4]
    /\ vWt' = [v \in Vertices |-> [w |-> Zero4, den |-> 1]]
    /\ contrib' = [v \in Vertices |-> [n |-> 0, zero |-> FALSE, bones |-> << >>]]
    /\ meshNo' = meshNo + 1
    /\ entry' = 0 /\ lastV' = 0
    /\ UNCHANGED <<bones, bindex, refs, bidx, idxVars, treeVars, animVars, laterVars>>

\* Lines 100-106: the next entry of mesh->mBones, its name looked up.
ResolveBone ==
    /\ bpc = "bones"
    /\ Len(SelectSeq(refs, LAMBDA n : n \notin { AutoName(m) : m \in NodeNames }))
          < MaxEntries
    /\ \E name \in EntryNames :
          LET tr == [kind |-> "offset", mesh |-> meshNo, entry |-> entry + 1]
          IN  /\ bidx' = LookupId(bones, bindex, name)
              /\ bones' = Registered(bones, bindex, name, tr)
              /\ bindex' = IndexAfter(bones, bindex, name)
              /\ refs' = Append(refs, name)
    /\ entry' = entry + 1
    /\ lastV' = 0
    /\ UNCHANGED <<bpc, meshNo, curNode, vIdx, vWt, contrib,
                   idxVars, treeVars, animVars, laterVars>>

\* Lines 108-116: one aiVertexWeight of the entry at hand (an entry's weights
\* are taken in vertex order, one per vertex at most).
AddWeight ==
    /\ bpc = "bones"
    /\ entry >= 1
    /\ \E v \in Vertices, w \in Weights :
          /\ v > lastV
          /\ lastV' = v
          /\ LET c == SlotFor(vIdx[v], vWt[v].w, bidx)
             IN  IF c = 0
                 THEN UNCHANGED <<vIdx, vWt>>
                 ELSE /\ vIdx' = [vIdx EXCEPT ![v][c] = bidx]
                      /\ vWt' = [vWt EXCEPT ![v].w[c] = w]
          /\ contrib' = [contrib EXCEPT ![v] = Noted(contrib[v], bidx, w)]
    /\ UNCHANGED <<bpc, bones, bindex, refs, meshNo, curNode, entry, bidx,
                   idxVars, treeVars, animVars, laterVars>>

\* Lines 118-128 and 136: after the last entry, every vertex whose wt.x is 0
\* is bound to the node's fallback bone (getNodeBone, lines 57-64), every
\* other has its weights divided by their sum.
FinishBones ==
    /\ bpc = "bones"
    /\ entry >= 1
    /\ LET name == AutoName(curNode)
           tr == [kind |-> "node", mesh |-> meshNo, entry |-> 0]
           unbound == { v \in Vertices : vWt[v].w[1] = 0 }
           id == LookupId(bones, bindex, name)
       IN  /\ IF unbound = {}
              THEN UNCHANGED <<bones, bindex, refs, bidx>>
              ELSE /\ bidx' = id
                   /\ bones' = Registered(bones, bindex, name, tr)
                   /\ bindex' = IndexAfter(bones, bindex, name)
                   /\ refs' = Append(refs, name)
           /\ vIdx' = [v \in Vertices |->
                         IF v \in unbound THEN <<id, 0, 0, 0>> ELSE vIdx[v]]
           /\ vWt' = [v \in Vertices |->
                         IF v \in unbound THEN [w |-> <<1, 0, 0, 0>>, den |-> 1]
                         ELSE [w |-> vWt[v].w, den |-> NormSum(vWt[v].w)]]
    /\ bpc' = "mesh"
    /\ UNCHANGED <<meshNo, curNode, entry, lastV, contrib,
                   idxVars, treeVars, animVars, laterVars>>

\* Lines 130-134 and 136: a mesh without bones is bound to the fallback bone.
BindStatic ==
    /\ bpc = "static"
    /\ LET name == AutoName(curNode)
           tr == [kind |-> "node", mesh |-> meshNo, entry |-> 0]
           id == LookupId(bones, bindex, name)
       IN  /\ bidx' = id
           /\ bones' = Registered(bones, bindex, name, tr)
           /\ bindex' = IndexAfter(bones, bindex, name)
           /\ refs' = Append(refs, name)
           /\ vIdx' = [v \in Vertices |-> <<id, 0, 0, 0>>]
           /\ vWt' = [v \in Vertices |-> [w |-> <<1, 0, 0, 0>>, den |-> 1]]
    /\ bpc' = "mesh"
    /\ UNCHANGED <<meshNo, curNode, entry, lastV, contrib,
                   idxVars, treeVars, animVars, laterVars>>

NextBind == BeginMesh \/ ResolveBone \/ AddWeight \/ FinishBones \/ BindStatic

SpecBind == InitBind /\ [][NextBind]_vars

\* loadMesh has returned from a mesh.
MeshDone == bpc = "mesh" /\ meshNo > 0

\* The sum of four weights, written out.
Sum4(w) == w[1] + w[2] + w[3] + w[4]

\* The fallback bone of the mesh at hand is in the table and slot 0 of
\* vertex v holds its id, with weights exactly (1,0,0,0).
OnFallback(v) ==
    /\ AutoName(curNode) \in DOMAIN bones
    /\ vIdx[v][1] = bones[AutoName(curNode)].id
    /\ vWt[v].w = <<1, 0, 0, 0>>
    /\ vWt[v].den = 1

\* C2: after loadMesh finishes a mesh, every vertex that received 1 to 4
\* weight contributions has four emitted weights that sum to 1 (their exact
\* sum equals the divisor, which is not 0), and every vertex that received
\* none has weights exactly (1,0,0,0) with slot 0 bound to the fallback bone
\* of the mesh's node.
C2_WeightsSumToOne ==
    MeshDone =>
        \A v \in Vertices :
            /\ contrib[v].n \in 1 .. 4 =>
                  /\ vWt[v].den # 0
                  /\ Sum4(vWt[v].w) = vWt[v].den
            /\ contrib[v].n = 0 => OnFallback(v)

\* A finished mesh with a vertex of three contributions from three bones
\* whose weights add up to 5 units, after a finished mesh whose vertex is on
\* the fallback bone.
C2_Witness ==
    /\ MeshDone
    /\ \E v \in Vertices :
          /\ contrib[v].n = 3
          /\ Len(contrib[v].bones) = 3
          /\ vWt[v].den = 5
    /\ meshNo = 2
    /\ \E n \in NodeNames : AutoName(n) \in DOMAIN bones

\* Slots 1 .. 4 of vertex v hold the first four bones that gave it a weight,
\* each with the weight it gave last.
FirstFourInSlots(v) ==
    \A c \in 1 .. 4 :
        /\ vIdx[v][c] = contrib[v].bones[c].id
        /\ vWt[v].w[c] = contrib[v].bones[c].w

\* C3 as stated: a vertex with contributions from 5 or more distinct bones
\* has exactly the first 4 encountered in its slots, normalized to sum to 1.
C3_AsStated ==
    MeshDone =>
        \A v \in Vertices :
            Len(contrib[v].bones) >= 5 =>
                /\ FirstFourInSlots(v)
                /\ vWt[v].den # 0
                /\ Sum4(vWt[v].w) = vWt[v].den

\* C3, amended: when none of the contributions has weight 0, a vertex with
\* contributions from 5 or more distinct bones has the first 4 encountered in
\* its slots from the fifth bone's contribution on (the later ones change
\* nothing), and once the mesh is finished the four weights sum to 1.
C3_FirstFour ==
    (bpc = "bones" \/ MeshDone) =>
        \A v \in Vertices :
            (Len(contrib[v].bones) >= 5 /\ ~contrib[v].zero) =>
                /\ FirstFourInSlots(v)
                /\ MeshDone => /\ vWt[v].den # 0
                               /\ Sum4(vWt[v].w) = vWt[v].den

C3_Witness ==
    /\ MeshDone
    /\ \E v \in Vertices :
          /\ Len(contrib[v].bones) >= 5
          /\ ~contrib[v].zero
          /\ FirstFourInSlots(v)

\* C4: a lookup of a name that is already in the table creates no entry,
\* leaves the counter alone and yields the id stored for the name, and no
\* step ever changes the id or the transform of an entry.
C4_FirstOccurrenceWins ==
    [][ /\ \A n \in DOMAIN bones : n \in DOMAIN bones' /\ bones'[n] = bones[n]
        /\ (Len(refs') > Len(refs) /\ refs'[Len(refs')] \in DOMAIN bones) =>
              /\ bones' = bones
              /\ bindex' = bindex
              /\ bidx' = bones[refs'[Len(refs')]].id ]_vars

\* A name has been looked up in two different meshes, and a name twice in
\* one mesh.
C4_Witness ==
    /\ meshNo = 2
    /\ entry >= 2
    /\ \E i, j \in 1 .. Len(refs) : i < j /\ j <= Len(refs) - entry /\ refs[i] = refs[j]
    /\ refs[Len(refs)] = refs[Len(refs) - 1]
    /\ bpc = "bones"

\* The number of distinct names looked up before the first lookup of name.
FirstRefRank(name) ==
    LET first == CHOOSE i \in 1 .. Len(refs) :
                     /\ refs[i] = name
                     /\ \A j \in 1 .. (i - 1) : refs[j] # name
    IN  Cardinality({ refs[j] : j \in 1 .. (first - 1) })

\* C5: the table holds exactly the names looked up, the id of each is the
\* number of distinct names looked up before its first lookup (ids go
\* 0,1,2,... in order of first reference), no two names share an id, and the
\* ids are exactly 0 .. (number of bones - 1).
C5_IdsInFirstReferenceOrder ==
    /\ DOMAIN bones = { refs[i] : i \in 1 .. Len(refs) }
    /\ \A n \in DOMAIN bones : bones[n].id = FirstRefRank(n)
    /\ \A n, m \in DOMAIN bones : bones[n].id = bones[m].id => n = m
    /\ { bones[n].id : n \in DOMAIN bones } = 0 .. (Cardinality(DOMAIN bones) - 1)
    /\ bindex = Cardinality(DOMAIN bones)

\* Named bones and fallback bones interleave: a fallback bone got an id
\* between those of two named bones, and names were looked up again.
C5_Witness ==
    /\ Cardinality(DOMAIN bones) >= 4
    /\ Len(refs) > Cardinality(DOMAIN bones)
    /\ \E a \in NodeNames :
          /\ AutoName(a) \in DOMAIN bones
          /\ \E n, m \in DOMAIN bones \ { AutoName(x) : x \in NodeNames } :
                bones[n].id < bones[AutoName(a)].id /\ bones[AutoName(a)].id < bones[m].id

(***************************************************************************)
(* Tracks whose samples lie on one line, run through the same writers.     *)
(***************************************************************************)
\* Largest number of keys of a track on a line.
MaxLineKeys == 4

\* The change of the first component per unit of time.
LineSlopes == {0, 1, 2, EpsilonUnits, EpsilonUnits + 1}

\* The track with keys at the times of the set ts, in increasing order, whose
\* first component starts at 0 and changes by slope per unit of time.
LineTrack(kd, ts, slope) ==
    [j \in 1 .. Cardinality(ts) |->
        LET t == CHOOSE u \in ts : Cardinality({ q \in ts : q < u }) = j - 1
            first == CHOOSE u \in ts : \A q \in ts : u <= q
            x == slope * (t - first)
        IN  [t |-> t, v |-> IF kd = "vec" THEN <<x, 0, 0>> ELSE <<x, 0, 0, 0>>]]

LineTracks(kd, n) ==
    { LineTrack(kd, ts, slope) :
        ts \in { q \in SUBSET (0 .. MaxTime) : Cardinality(q) = n },
        slope \in LineSlopes }

InitLine ==
    /\ IdleIndex /\ IdleTree /\ IdleBind /\ IdleLater
    /\ apc = "loop"
    /\ kind \in {"vec", "quat"}
    /\ track \in UNION { LineTracks(kind, n) : n \in 0 .. MaxLineKeys }
    /\ keys = track
    /\ ki = 0 /\ ar = << >> /\ out = [len |-> 0, keys |-> << >>] /\ pass = 1

SpecLine == InitLine /\ [][NextAnim]_vars

\* Every sample between the first and the last of ks lies exactly on the
\* line between those two, by elapsed-time fraction.
OnLine(ks) ==
    \A j \in 2 .. Len(ks) - 1 : \A c \in DOMAIN ks[j].v :
        (ks[j].v[c] - ks[1].v[c]) * (ks[Len(ks)].t - ks[1].t)
            = (ks[Len(ks)].v[c] - ks[1].v[c]) * (ks[j].t - ks[1].t)

\* C11 as stated: a track whose interior samples all lie on the line between
\* its first and its last sample is written as exactly the first and the last
\* sample.
C11_AsStated ==
    (apc = "written" /\ Len(keys) > 0 /\ OnLine(keys)) =>
        Retained = {0, Len(keys) - 1}

\* C11, amended: of a track whose interior samples all lie on the line
\* between its first and its last sample, the first sample is written, no
\* interior sample is, and the last sample is written exactly when some
\* component of it is 0.00001 or more away from the sample before it
\* (position, scale) or from the first sample (rotation).
C11_LineCompression ==
    (apc = "written" /\ Len(keys) > 0 /\ OnLine(keys)) =>
        LET last == Len(keys) - 1
            ref == IF kind = "vec" THEN last - 1 ELSE 0
        IN  Retained =
              {0} \cup (IF last > 0 /\ ~EqualsFuzzy(keys[ref + 1].v, keys[last + 1].v)
                        THEN {last} ELSE {})

\* The position track with keys at t = 0,1,2,3 was written as keys 0 and 3.
C11_Witness ==
    /\ apc = "written" /\ pass = 1 /\ kind = "vec"
    /\ Len(keys) = 4 /\ OnLine(keys)
    /\ Retained = {0, 3}

(***************************************************************************)
(* loadAnimation: the channel count and the channel blocks of an animation *)
(* block.  Of a channel block only the one written last is kept, with each *)
(* of its three key arrays as the length field and the floats of the keys  *)
(* written after it.                                                       *)
(***************************************************************************)
\* Largest number of animations of a scene.
MaxAnimations == 2
\* Largest mNumChannels of an animation.
MaxChannels == 2
\* Largest number of keys of a channel's track.
MaxChannelKeys == 3

\* sizeof(float): the bytes writeFloat writes.
FloatBytes == 4

\* Node names of channels: "a" and "b" are nodes without meshes, "m" is a
\* node with a mesh, which loadTree (line 150) never enters into node_map.
ChannelNames == {"a", "b", "m"}

\* The maps loadTree can have built over the nodes "a" and "b".
NodeMaps ==
    { [n \in d |-> IF n = "a" THEN 1 ELSE 2] : d \in SUBSET {"a", "b"} }

\* The track of n keys at times 0,1,.., constant (slope 0) or rising by
\* slope per key.
ChannelTrack(kd, n, slope) == LineTrack(kd, 0 .. (n - 1), slope)

\* The key arrays a channel can carry: the position and the rotation track
\* have n keys, the scaling track m keys, up to MaxChannelKeys each; all
\* three are constant or all three rise by the epsilon per key.
ChannelShapes ==
    [n : 0 .. MaxChannelKeys, m : 0 .. MaxChannelKeys, slope : {0, EpsilonUnits}]

\* The loop of lines 172-179 / 186-195 from sample i on, ret being ar.
RECURSIVE CompressFrom(_, _, _, _)
CompressFrom(kd, ks, ret, i) ==
    IF i >= Len(ks) THEN ret
    ELSE CompressFrom(kd, ks,
                      IF Skips(kd, ks, ret, i) THEN ret ELSE Append(ret, i),
                      i + 1)

\* The floats written for one key: mTime and the value's components
\* (lines 181 and 197-198).
KeyFloats(k) == <<k.t>> \o k.v

\* A mutation of LengthField: the key count is written.
LengthFieldKeys(kd, n) == n

\* The int written before the keys: ar.size()*4 (line 180), ar.size()*5
\* (line 196).
LengthField(kd, n) == n * FloatsPerKey(kd)

\* What writeVectorArray / writeQuatArray write for the key array ks.
WrittenArray(kd, ks) ==
    LET ret == CompressFrom(kd, ks, << >>, 0)
    IN  [len |-> LengthField(kd, Len(ret)),
         keys |-> [j \in 1 .. Len(ret) |-> KeyFloats(ks[ret[j] + 1])]]

\* Line 213: the scale array written when NO_SCALE is set.
FixedScale == [len |-> 4, keys |-> << <<0, 1, 1, 1>> >>]

InitChan ==
    /\ IdleIndex /\ IdleTree /\ IdleAnim /\ IdleBind /\ IdleLayout /\ IdleCount
    /\ IdleMain /\ IdleBounds /\ IdleNorm /\ IdleRest
    /\ cpc = "ready"
    /\ NO_SCALE \in BOOLEAN
    /\ chan_map \in NodeMaps
    /\ animNo = 0 /\ numChannels = 0 /\ chi = 0
    /\ channelCount = 0 /\ nblocks = 0 /\ block = << >>

\* Lines 204-205 of the next loadAnimation call (loadScene line 243).
BeginAnimation ==
    /\ cpc = "ready"
    /\ animNo < MaxAnimations
    /\ \E n \in 0 .. MaxChannels :
          /\ numChannels' = n
          /\ channelCount' = n
    /\ animNo' = animNo + 1
    /\ chi' = 0 /\ nblocks' = 0 /\ block' = << >>
    /\ cpc' = "channels"
    /\ UNCHANGED <<NO_SCALE, chan_map, idxVars, treeVars, animVars, bindVars, layoutVars, countVars,
                   mainVars, boundsVars, normVars, restVars>>

\* Lines 207-214: one iteration of the channel loop.
WriteChannel ==
    /\ cpc = "channels"
    /\ chi < numChannels
    /\ \E name \in ChannelNames, sh \in ChannelShapes :
          LET pos == ChannelTrack("vec", sh.n, sh.slope)
              rot == ChannelTrack("quat", sh.n, sh.slope)
              scale == ChannelTrack("vec", sh.m, sh.slope)
          IN  IF name \notin DOMAIN chan_map
              THEN UNCHANGED <<nblocks, block>>
              ELSE /\ nblocks' = nblocks + 1
                   /\ block' = [node |-> chan_map[name],
                                pos |-> WrittenArray("vec", pos),
                                rot |-> WrittenArray("quat", rot),
                                scale |-> IF NO_SCALE THEN FixedScale
                                          ELSE WrittenArray("vec", scale)]
    /\ chi' = chi + 1
    /\ UNCHANGED <<cpc, NO_SCALE, chan_map, animNo, numChannels, channelCount,
                   idxVars, treeVars, animVars, bindVars, layoutVars, countVars,
                   mainVars, boundsVars, normVars, restVars>>

\* The loop of line 206 ends and loadAnimation returns.
EndAnimation ==
    /\ cpc = "channels"
    /\ chi = numChannels
    /\ cpc' = "ready"
    /\ UNCHANGED <<NO_SCALE, chan_map, animNo, numChannels, chi, channelCount,
                   nblocks, block, idxVars, treeVars, animVars, bindVars, layoutVars, countVars,
                   mainVars, boundsVars, normVars, restVars>>

NextChan == BeginAnimation \/ WriteChannel \/ EndAnimation

SpecChan == InitChan /\ [][NextChan]_vars

\* An animation block has been written completely.
AnimationWritten == cpc = "ready" /\ animNo > 0

\* C12 as stated: in every emitted animation block the channelCount field
\* equals the number of channel blocks that follow it.
C12_AsStated == AnimationWritten => channelCount = nblocks

\* The sum of the lengths of the tuples of a sequence.
RECURSIVE FloatCount(_)
FloatCount(ks) ==
    IF ks = << >> THEN 0 ELSE Len(ks[1]) + FloatCount(Tail(ks))

\* The bytes of the keys written after a length field.
BytesOf(arr) == FloatBytes * FloatCount(arr.keys)

\* The three key arrays of the channel block written last.
BlockArrays == IF block = << >> THEN {} ELSE {block.pos, block.rot, block.scale}

\* C17 as stated: each track length field equals the number of bytes of the
\* keys that follow it.
C17_AsStated == \A arr \in BlockArrays : arr.len = BytesOf(arr)

\* C17, amended: each track length field equals the number of 4-byte floats
\* of the keys that follow it: 4 per position or scale key (the fixed scale
\* key of NO_SCALE included) and 5 per rotation key.
C17_LengthInFloats ==
    block # << >> =>
        /\ \A arr \in BlockArrays : arr.len * FloatBytes = BytesOf(arr)
        /\ block.pos.len = 4 * Len(block.pos.keys)
        /\ block.scale.len = 4 * Len(block.scale.keys)
        /\ block.rot.len = 5 * Len(block.rot.keys)
        /\ NO_SCALE => Len(block.scale.keys) = 1

\* A block with two position keys, three rotation keys and the fixed scale
\* key has been written.
C17_Witness ==
    /\ block # << >>
    /\ NO_SCALE
    /\ Len(block.pos.keys) = 2 /\ block.pos.len = 8
    /\ Len(block.rot.keys) = 2 /\ block.rot.len = 10
    /\ block.scale.len = 4

(***************************************************************************)
(* The vertex layout loadScene declares (lines 224-227) and the attributes *)
(* loadMesh addresses in it (lines 81-135), for a scene with one mesh.     *)
(***************************************************************************)
POSITION == 0
NORMAL == 1
TEX_COORD == 2
BONE_IDX == 3
BONE_WEIGHT == 4

\* The width of short.
ShortBits == 16

\* The animation counts of a scene: few, and around the limits of short and
\* unsigned short.
AnimCounts == {0, 1, 2, 32767, 32768, 32769, 65535, 65536, 65537}

\* (short)n of line 226 for an unsigned n.
ToShort(n) ==
    LET m == n % Pow2(ShortBits)
    IN  IF m >= Pow2(ShortBits - 1) THEN m - Pow2(ShortBits) ELSE m

\* aiScene::HasAnimations().
HasAnimations(n) == n > 0

\* A mutation of AddAttribute: bpv is not advanced.
AddAttributeNoStride(fmt, size, n) ==
    [attributes |-> Append(fmt.attributes,
                           [offset |-> fmt.bpv % 64, bpa |-> (size * n) % 64,
                            numElements |-> n]),
     bpv |-> fmt.bpv]

\* VertexFormat::addAttribute<TYPE, n, false>() with size = sizeof(TYPE)
\* (VertexFormat.h:168-171, createAttribType 158-161): offset and bpa are
\* 6-bit fields, bpv is a uchar.
AddAttribute(fmt, size, n) ==
    [attributes |-> Append(fmt.attributes,
                           [offset |-> fmt.bpv % 64, bpa |-> (size * n) % 64,
                            numElements |-> n]),
     bpv |-> (fmt.bpv + ((size * n) % 64)) % 256]

\* VertexFormat() of VertexFormat.h:167.
EmptyFormat == [attributes |-> << >>, bpv |-> 0]

\* Lines 224-225: the three attributes added for every scene.
BaseFormat ==
    AddAttribute(AddAttribute(AddAttribute(EmptyFormat, FloatBytes, 3),
                              FloatBytes, 3), FloatBytes, 2)

\* Line 227: the two attributes added when nAnim > 0.
BoneFormat(fmt, n) ==
    IF n > 0 THEN AddAttribute(AddAttribute(fmt, FloatBytes, 4), FloatBytes, 4)
    ELSE fmt

InitLayout ==
    /\ IdleIndex /\ IdleTree /\ IdleAnim /\ IdleBind /\ IdleChan /\ IdleCount
    /\ IdleMain /\ IdleBounds /\ IdleNorm /\ IdleRest
    /\ lpc = "scene"
    /\ mNumAnimations \in AnimCounts
    /\ meshFlags \in [normals : BOOLEAN, tex : BOOLEAN, bones : BOOLEAN]
    /\ nAnim = 0 /\ format = EmptyFormat /\ accessed = {}

\* Lines 224-227.
BuildFormat ==
    /\ lpc = "scene"
    /\ nAnim' = IF HasAnimations(mNumAnimations) THEN ToShort(mNumAnimations) ELSE 0
    /\ format' = BoneFormat(BaseFormat, nAnim')
    /\ lpc' = "format"
    /\ UNCHANGED <<mNumAnimations, meshFlags, accessed,
                   idxVars, treeVars, animVars, bindVars, chanVars, countVars,
                   mainVars, boundsVars, normVars, restVars>>

\* Lines 81-91 of loadMesh: the position, normal and texture coordinate of
\* the mesh's vertices.
LoadVertices ==
    /\ lpc = "format"
    /\ accessed' = {POSITION}
                   \cup (IF meshFlags.normals THEN {NORMAL} ELSE {})
                   \cup (IF meshFlags.tex THEN {TEX_COORD} ELSE {})
    /\ lpc' = "vertices"
    /\ UNCHANGED <<mNumAnimations, meshFlags, nAnim, format,
                   idxVars, treeVars, animVars, bindVars, chanVars, countVars,
                   mainVars, boundsVars, normVars, restVars>>

\* Lines 96-135 of loadMesh: under scene->HasAnimations() both branches get
\* or set BONE_IDX and BONE_WEIGHT of the mesh's vertices.  An index past
\* format->attributes (VertexFormat.h:195) is undefined behaviour: the
\* export may go on or crash.
BindVertices ==
    /\ lpc = "vertices"
    /\ accessed' = accessed \cup (IF HasAnimations(mNumAnimations)
                                  THEN {BONE_IDX, BONE_WEIGHT} ELSE {})
    /\ IF \A a \in accessed' : a < Len(format.attributes)
       THEN lpc' = "done"
       ELSE lpc' \in {"done", "crashed"}
    /\ UNCHANGED <<mNumAnimations, meshFlags, nAnim, format,
                   idxVars, treeVars, animVars, bindVars, chanVars, countVars,
                   mainVars, boundsVars, normVars, restVars>>

NextLayout == BuildFormat \/ LoadVertices \/ BindVertices

SpecLayout == InitLayout /\ [][NextLayout]_vars

\* The layout has been declared.
Declared == lpc \in {"format", "vertices", "done", "crashed"}

\* The sizes in bytes of the attributes of the layout, in order.
AttributeSizes == [a \in 1 .. Len(format.attributes) |-> format.attributes[a].bpa]

\* C13 as stated: the layout holds the position always, the normal and the
\* UV only when the mesh carries them, and bone index and bone weight only
\* when an animation exists; without any of them the stride is 12 bytes.
C13_AsStated ==
    Declared =>
        /\ AttributeSizes =
              <<12>> \o (IF meshFlags.normals THEN <<12>> ELSE << >>)
                     \o (IF meshFlags.tex THEN <<8>> ELSE << >>)
                     \o (IF HasAnimations(mNumAnimations) THEN <<16, 16>> ELSE << >>)
        /\ (~meshFlags.normals /\ ~meshFlags.tex /\ ~HasAnimations(mNumAnimations))
              => format.bpv = 12

\* C13, amended: the layout always holds position (12 bytes at 0), normal
\* (12 bytes at 12) and UV (8 bytes at 24), whatever the mesh carries; bone
\* index and bone weight (16 bytes each, at 32 and 48) follow exactly when
\* the animation count taken as a short is positive.  The stride is 32
\* bytes without them and 64 bytes with them.
C13_FixedLayout ==
    Declared =>
        LET skinned == ToShort(mNumAnimations) > 0
            offsets == [a \in 1 .. Len(format.attributes) |-> format.attributes[a].offset]
        IN  /\ AttributeSizes = <<12, 12, 8>> \o (IF skinned THEN <<16, 16>> ELSE << >>)
            /\ offsets = <<0, 12, 24>> \o (IF skinned THEN <<32, 48>> ELSE << >>)
            /\ format.bpv = IF skinned THEN 64 ELSE 32

\* The layout of a scene with one mesh without normals and UVs and without
\* animations has been declared and used: the stride is 32 bytes.
C13_Witness ==
    /\ lpc = "done"
    /\ ~meshFlags.normals /\ ~meshFlags.tex /\ mNumAnimations = 0
    /\ format.bpv = 32
    /\ accessed = {POSITION}

\* C15 as stated: for every animation count, loadMesh addresses bone index
\* and bone weight exactly when the layout contains them, which is when the
\* scene has at least one animation; it never addresses an attribute that is
\* not in the layout.
C15_AsStated ==
    lpc \in {"done", "crashed"} =>
        /\ (BONE_IDX \in accessed /\ BONE_WEIGHT \in accessed)
              <=> Len(format.attributes) > BONE_WEIGHT
        /\ Len(format.attributes) > BONE_WEIGHT <=> mNumAnimations >= 1
        /\ \A a \in accessed : a < Len(format.attributes)

(***************************************************************************)
(* getVertexCount and generateMesh / loadMesh over the node tree: which    *)
(* meshes are counted, and which vertex and index slots are filled.        *)
(***************************************************************************)
\* Largest number of mesh references of a scene, all nodes together.
MaxMeshRefs == 2

\* The meshes a node can refer to: two triangle meshes, a mesh with other
\* primitives, a mesh without positions and a mesh without faces.
MeshKinds ==
    { [prim |-> "triangle", nv |-> 3, nf |-> 1],
      [prim |-> "triangle", nv |-> 4, nf |-> 2],
      [prim |-> "mixed", nv |-> 3, nf |-> 1],
      [prim |-> "triangle", nv |-> 0, nf |-> 1],
      [prim |-> "triangle", nv |-> 3, nf |-> 0] }

\* The scenes of n nodes: a tree, and up to MaxMeshRefs mesh references
\* dealt to its nodes in turn (refs[node] is node->mMeshes in order; node
\* i gets the references after cut[i-1] up to cut[i]).
MeshScenes(n) ==
    UNION { { [n |-> n, parent |-> par,
               refs |-> [node \in 1 .. n |->
                           [k \in 1 .. (cut[node] - cut[node - 1]) |->
                              [node |-> node, mesh |-> ms[cut[node - 1] + k]]]]] :
                par \in TreeShapes(n),
                cut \in { c \in [0 .. n -> 0 .. Len(ms)] :
                            /\ c[0] = 0 /\ c[n] = Len(ms)
                            /\ \A i \in 1 .. n : c[i - 1] <= c[i] } }
          : ms \in UNION { [1 .. len -> MeshKinds] : len \in 0 .. MaxMeshRefs } }

\* node->mChildren of a node of mscene, in order.
ChildrenOf(node) ==
    LET kids == { i \in 1 .. mscene.n : mscene.parent[i] = node }
    IN  [k \in 1 .. Cardinality(kids) |->
            CHOOSE i \in kids : Cardinality({ j \in kids : j < i }) = k - 1]

\* A mutation of IsUsable: the HasFaces() test is missing.
IsUsableNoFaces(mesh) == mesh.prim = "triangle" /\ mesh.nv > 0

\* The negation of the test of lines 40 and 78: mPrimitiveTypes is
\* aiPrimitiveType_TRIANGLE, HasPositions() and HasFaces().
IsUsable(mesh) == mesh.prim = "triangle" /\ mesh.nv > 0 /\ mesh.nf > 0

\* Lines 38-41: vcount and icount after the mesh loop of a node, from
\* reference k on.
RECURSIVE CountMeshes(_, _, _)
CountMeshes(mrefs, k, counts) ==
    IF k > Len(mrefs) THEN counts
    ELSE CountMeshes(mrefs, k + 1,
            IF IsUsable(mrefs[k].mesh)
            THEN [v |-> counts.v + mrefs[k].mesh.nv, i |-> counts.i + mrefs[k].mesh.nf * 3]
            ELSE counts)

\* A mutation of LoadMeshes: loadMesh without the test of line 78.
RECURSIVE LoadMeshesUnchecked(_, _, _)
LoadMeshesUnchecked(mrefs, k, st) ==
    IF k > Len(mrefs) THEN st
    ELSE LoadMeshesUnchecked(mrefs, k + 1,
            [voff |-> st.voff + mrefs[k].mesh.nv,
             ioff |-> st.ioff + mrefs[k].mesh.nf * 3,
             vs |-> st.vs \cup (st.voff .. st.voff + mrefs[k].mesh.nv - 1),
             is |-> st.is \cup (st.ioff .. st.ioff + mrefs[k].mesh.nf * 3 - 1)])

\* Lines 142-143 with loadMesh (lines 78, 81-95, 136): the offsets and the
\* filled slots after the mesh loop of a node, from reference k on.
RECURSIVE LoadMeshes(_, _, _)
LoadMeshes(mrefs, k, st) ==
    IF k > Len(mrefs) THEN st
    ELSE LoadMeshes(mrefs, k + 1,
            IF IsUsable(mrefs[k].mesh)
            THEN [voff |-> st.voff + mrefs[k].mesh.nv,
                  ioff |-> st.ioff + mrefs[k].mesh.nf * 3,
                  vs |-> st.vs \cup (st.voff .. st.voff + mrefs[k].mesh.nv - 1),
                  is |-> st.is \cup (st.ioff .. st.ioff + mrefs[k].mesh.nf * 3 - 1)]
            ELSE st)

InitCount ==
    /\ IdleIndex /\ IdleTree /\ IdleAnim /\ IdleBind /\ IdleChan /\ IdleLayout
    /\ IdleMain /\ IdleBounds /\ IdleNorm /\ IdleRest
    /\ kpc = "count"
    /\ \E n \in 1 .. 3 : mscene \in MeshScenes(n)
    /\ pending = <<1>>
    /\ vcount = 0 /\ icount = 0 /\ voff = 0 /\ ioff = 0
    /\ vFilled = {} /\ iFilled = {}

\* getVertexCount on the next node (lines 38-42); its children are visited
\* next, in order.
CountNode ==
    /\ kpc = "count"
    /\ pending # << >>
    /\ LET node == Head(pending)
           counts == CountMeshes(mscene.refs[node], 1, [v |-> vcount, i |-> icount])
       IN  /\ vcount' = counts.v
           /\ icount' = counts.i
           /\ pending' = ChildrenOf(node) \o Tail(pending)
    /\ UNCHANGED <<kpc, mscene, voff, ioff, vFilled, iFilled,
                   idxVars, treeVars, animVars, bindVars, chanVars, layoutVars,
                   mainVars, boundsVars, normVars, restVars>>

\* Lines 224-230: getVertexCount has returned; the buffers are made for
\* vcount vertices and icount indices and generateMesh starts at the root.
StartGenerate ==
    /\ kpc = "count"
    /\ pending = << >>
    /\ kpc' = "generate"
    /\ pending' = <<1>>
    /\ UNCHANGED <<mscene, vcount, icount, voff, ioff, vFilled, iFilled,
                   idxVars, treeVars, animVars, bindVars, chanVars, layoutVars,
                   mainVars, boundsVars, normVars, restVars>>

\* generateMesh on the next node (lines 142-144).
GenerateNode ==
    /\ kpc = "generate"
    /\ pending # << >>
    /\ LET node == Head(pending)
           st == LoadMeshes(mscene.refs[node], 1,
                            [voff |-> voff, ioff |-> ioff, vs |-> vFilled, is |-> iFilled])
       IN  /\ voff' = st.voff
           /\ ioff' = st.ioff
           /\ vFilled' = st.vs
           /\ iFilled' = st.is
           /\ pending' = ChildrenOf(node) \o Tail(pending)
    /\ UNCHANGED <<kpc, mscene, vcount, icount,
                   idxVars, treeVars, animVars, bindVars, chanVars, layoutVars,
                   mainVars, boundsVars, normVars, restVars>>

\* Lines 232-234: the counts and the buffers are written.
WriteCounts ==
    /\ kpc = "generate"
    /\ pending = << >>
    /\ kpc' = "written"
    /\ UNCHANGED <<mscene, pending, vcount, icount, voff, ioff, vFilled, iFilled,
                   idxVars, treeVars, animVars, bindVars, chanVars, layoutVars,
                   mainVars, boundsVars, normVars, restVars>>

NextCount == CountNode \/ StartGenerate \/ GenerateNode \/ WriteCounts

SpecCount == InitCount /\ [][NextCount]_vars

\* The mesh references of the scene whose mesh is triangle-only and has
\* positions and faces, as [node, k].
GoodRefs ==
    { r \in UNION { { [node |-> node, k |-> k] : k \in 1 .. Len(mscene.refs[node]) } :
                    node \in 1 .. mscene.n } :
        LET m == mscene.refs[r.node][r.k].mesh
        IN  m.prim = "triangle" /\ m.nv # 0 /\ m.nf # 0 }

\* The vertices (what = "v") or the indices (what = "i") of the meshes of a
\* set of references, summed.
RECURSIVE SumRefs(_, _)
SumRefs(rs, what) ==
    IF rs = {} THEN 0
    ELSE LET r == CHOOSE x \in rs : TRUE
             m == mscene.refs[r.node][r.k].mesh
         IN  (IF what = "v" THEN m.nv ELSE 3 * m.nf) + SumRefs(rs \ {r}, what)

\* C14: the emitted vertexCount and indexCount are the sums, over the mesh
\* references whose mesh is triangle-only with positions and faces, of the
\* vertex count and of 3 times the face count; the slots filled are exactly
\* those of these meshes (none is left out, none is added for another mesh).
C14_CountsOfUsableMeshes ==
    kpc = "written" =>
        /\ vcount = SumRefs(GoodRefs, "v")
        /\ icount = SumRefs(GoodRefs, "i")
        /\ vFilled = 0 .. (vcount - 1)
        /\ iFilled = 0 .. (icount - 1)
        /\ voff = vcount /\ ioff = icount

\* A node with a mesh of other primitives followed by a triangle mesh of 4
\* vertices and 2 faces: only the triangle mesh is counted and emitted.
C14_Witness ==
    /\ kpc = "written"
    /\ mscene.n >= 2
    /\ Len(mscene.refs[1]) = 2
    /\ mscene.refs[1][1].mesh.prim = "mixed"
    /\ mscene.refs[1][2].mesh.prim = "triangle"
    /\ mscene.refs[1][2].mesh.nv = 4 /\ mscene.refs[1][2].mesh.nf = 2
    /\ vcount = 4 /\ icount = 6
    /\ vFilled = 0 .. 3 /\ iFilled = 0 .. 5

\* C27: while generateMesh runs, the running offsets never pass the counts
\* the buffers were allocated with and every vertex and index slot written
\* lies inside the buffers; when generateMesh has returned, the vertex
\* offset equals vcount and the index offset equals icount.
C27_OffsetsMeetCounts ==
    kpc \in {"generate", "written"} =>
        /\ voff <= vcount /\ ioff <= icount
        /\ vFilled \subseteq 0 .. (vcount - 1)
        /\ iFilled \subseteq 0 .. (icount - 1)
        /\ pending = << >> => voff = vcount /\ ioff = icount

\* generateMesh has returned for a scene whose root refers to a mesh
\* without faces and whose second node refers to a triangle mesh of 3
\* vertices: both passes skipped the first and took the second.
C27_Witness ==
    /\ kpc = "generate" /\ pending = << >>
    /\ mscene.n >= 2
    /\ Len(mscene.refs[1]) = 1 /\ mscene.refs[1][1].mesh.nf = 0
    /\ Len(mscene.refs[2]) = 1 /\ IsUsable(mscene.refs[2][1].mesh)
    /\ voff = 3 /\ ioff = 3 /\ vcount = 3 /\ icount = 3
    /\ vFilled = 0 .. 2 /\ iFilled = 0 .. 2

(***************************************************************************)
(* main: the command line, the import, the destination file and the value  *)
(* returned.                                                               *)
(***************************************************************************)
\* Largest number of arguments after the program's name.
MaxArgs == 5

ArgWords == {"in.fbx", "out.wobj", "-noscale", "-writemeshes"}

\* The variables of loadAnimation other than NO_SCALE.
chanRest == <<cpc, chan_map, animNo, numChannels, chi, channelCount, nblocks, block>>

\* What main leaves alone apart from its own variables and NO_SCALE.
mainOthers == <<idxVars, treeVars, animVars, bindVars, chanRest, layoutVars,
                countVars, boundsVars, normVars, restVars>>

\* return -1 of lines 264 and 274.
UsageStatus == -1

InitMain ==
    /\ IdleIndex /\ IdleTree /\ IdleAnim /\ IdleBind
    /\ IdleChan /\ IdleLayout /\ IdleCount /\ IdleBounds /\ IdleNorm /\ IdleRest
    /\ mpc = "noscale"
    /\ argv \in UNION { [1 .. n -> ArgWords] : n \in 0 .. MaxArgs }
    /\ argc = Len(argv) + 1
    /\ WRITE_MESHES = FALSE
    /\ imported = "unknown" /\ opened = "unknown" /\ status = "none"

\* Line 261.
StripNoScale ==
    /\ mpc = "noscale"
    /\ IF argc > 3 /\ argv[argc - 1] = "-noscale"
       THEN argc' = argc - 1 /\ NO_SCALE' = TRUE
       ELSE UNCHANGED <<argc, NO_SCALE>>
    /\ mpc' = "writemeshes"
    /\ UNCHANGED <<argv, WRITE_MESHES, imported, opened, status, mainOthers>>

\* Line 262.
StripWriteMeshes ==
    /\ mpc = "writemeshes"
    /\ IF argc > 3 /\ argv[argc - 1] = "-writemeshes"
       THEN argc' = argc - 1 /\ WRITE_MESHES' = TRUE
       ELSE UNCHANGED <<argc, WRITE_MESHES>>
    /\ mpc' = "usage"
    /\ UNCHANGED <<argv, NO_SCALE, imported, opened, status, mainOthers>>

\* Lines 263-264.
CheckUsage ==
    /\ mpc = "usage"
    /\ IF argc # 3
       THEN status' = UsageStatus /\ mpc' = "exited"
       ELSE status' = status /\ mpc' = "import"
    /\ UNCHANGED <<argv, argc, NO_SCALE, WRITE_MESHES, imported, opened, mainOthers>>

\* Lines 265-271: aiImportFile returns a scene or NULL.
Import ==
    /\ mpc = "import"
    /\ \E scn \in {"null", "scene"} :
          /\ imported' = scn
          /\ mpc' = IF scn = "scene" THEN "open" ELSE "return"
    /\ UNCHANGED <<argv, argc, NO_SCALE, WRITE_MESHES, opened, status, mainOthers>>

\* Lines 272-274: the destination is opened or not.
OpenFile ==
    /\ mpc = "open"
    /\ \E ok \in {"no", "yes"} :
          /\ opened' = ok
          /\ IF ok = "no"
             THEN status' = UsageStatus /\ mpc' = "exited"
             ELSE status' = status /\ mpc' = "export"
    /\ UNCHANGED <<argv, argc, NO_SCALE, WRITE_MESHES, imported, mainOthers>>

\* Lines 275-276: loadScene, file.close(), aiReleaseImport.
Export ==
    /\ mpc = "export"
    /\ mpc' = "return"
    /\ UNCHANGED <<argv, argc, NO_SCALE, WRITE_MESHES, imported, opened, status,
                   mainOthers>>

\* Line 277: return 0.
Return ==
    /\ mpc = "return"
    /\ status' = 0
    /\ mpc' = "exited"
    /\ UNCHANGED <<argv, argc, NO_SCALE, WRITE_MESHES, imported, opened, mainOthers>>

NextMain ==
    StripNoScale \/ StripWriteMeshes \/ CheckUsage \/ Import \/ OpenFile
        \/ Export \/ Return

SpecMain == InitMain /\ [][NextMain]_vars

\* C16 as stated: when the destination cannot be opened for writing, and
\* when the import returns no scene, main returns a non-zero status.
C16_AsStated ==
    (mpc = "exited" /\ (opened = "no" \/ imported = "null")) => status # 0

(***************************************************************************)
(* The bounds of a scene with one triangle mesh on the root node:          *)
(* generateMesh line 140, the vertex loop of loadMesh (lines 81-84) and    *)
(* the bounds loadScene writes (lines 235-236).  Coordinates are whole     *)
(* numbers; a matrix is the tuple of its rows a, b, c, d.                  *)
(***************************************************************************)
\* Stands for std::numeric_limits<double>::max(): above every coordinate.
MaxDouble == 1000000

Coords == {-1, 2}

\* The unit matrix, aiMatrix4x4().
UnitMatrix == <<<<1, 0, 0, 0>>, <<0, 1, 0, 0>>, <<0, 0, 1, 0>>, <<0, 0, 0, 1>>>>

\* aiMatrix4x4 identity(1,0,0,0,0,0,-1,0,0,1,0,0,0,0,0,1) of line 229.
identity == <<<<1, 0, 0, 0>>, <<0, 0, -1, 0>>, <<0, 1, 0, 0>>, <<0, 0, 0, 1>>>>

\* node->mTransformation: the unit matrix, or a shift by 3 along z.
NodeTransforms == {UnitMatrix, <<<<1, 0, 0, 0>>, <<0, 1, 0, 0>>, <<0, 0, 1, 3>>, <<0, 0, 0, 1>>>>}

\* aiMatrix4x4::operator*: the matrix product.
MatMul(m, n) ==
    [r \in 1 .. 4 |-> [c \in 1 .. 4 |->
        m[r][1] * n[1][c] + m[r][2] * n[2][c] + m[r][3] * n[3][c] + m[r][4] * n[4][c]]]

\* mul(transform, p) of lines 45-50 for p = (x, y, z, 1), without its w.
Mul(transform, p) ==
    [r \in 1 .. 3 |-> transform[r][1] * p[1] + transform[r][2] * p[2]
                      + transform[r][3] * p[3] + transform[r][4] * 1]

\* min and max of common.h:86 and 91.
Min(a, b) == IF a < b THEN a ELSE b
Max(a, b) == IF a > b THEN a ELSE b

\* BBox3D<double>() of BBox.h:193.
EmptyBox ==
    [botLeft |-> <<MaxDouble, MaxDouble, MaxDouble>>,
     topRight |-> <<-MaxDouble, -MaxDouble, -MaxDouble>>]

\* A mutation of AddPoint: topRight is not raised.
AddPointBottomOnly(box, v) ==
    [botLeft |-> [c \in 1 .. 3 |-> Min(box.botLeft[c], v[c])],
     topRight |-> box.topRight]

\* BBox3D::operator+=(const vec3<E>&) of BBox.h:284-292.
AddPoint(box, v) ==
    [botLeft |-> [c \in 1 .. 3 |-> Min(box.botLeft[c], v[c])],
     topRight |-> [c \in 1 .. 3 |-> Max(box.topRight[c], v[c])]]

InitBounds ==
    /\ IdleIndex /\ IdleTree /\ IdleAnim /\ IdleBind
    /\ IdleChan /\ IdleLayout /\ IdleCount /\ IdleMain /\ IdleNorm /\ IdleRest
    /\ gpc = "vertices"
    /\ srcVerts \in [1 .. 3 -> [1 .. 3 -> Coords]]
    /\ nodeTransform \in NodeTransforms
    /\ gi = 0
    /\ bounds = EmptyBox
    /\ emitted = << >>

\* One iteration of the loop of lines 81-84 (92), with mat of line 140 for
\* the root node: identity*node->mTransformation.
SetVertex ==
    /\ gpc = "vertices"
    /\ gi < Len(srcVerts)
    /\ LET mat == MatMul(identity, nodeTransform)
           bpos == Mul(mat, srcVerts[gi + 1])
       IN  /\ bounds' = AddPoint(bounds, bpos)
           /\ emitted' = Append(emitted, bpos)
    /\ gi' = gi + 1
    /\ UNCHANGED <<gpc, srcVerts, nodeTransform, idxVars, treeVars, animVars,
                   bindVars, chanVars, layoutVars, countVars, mainVars, normVars, restVars>>

\* Lines 232-236: the buffers and the bounds are written.
WriteBounds ==
    /\ gpc = "vertices"
    /\ gi = Len(srcVerts)
    /\ gpc' = "written"
    /\ UNCHANGED <<srcVerts, nodeTransform, gi, bounds, emitted, idxVars, treeVars,
                   animVars, bindVars, chanVars, layoutVars, countVars, mainVars,
                   normVars, restVars>>

NextBounds == SetVertex \/ WriteBounds

SpecBounds == InitBounds /\ [][NextBounds]_vars

\* The smallest and the largest number of a non-empty set.
Least(S) == CHOOSE m \in S : \A x \in S : m <= x
Greatest(S) == CHOOSE m \in S : \A x \in S : m >= x

\* C18 as stated: with unit node transforms the emitted bounds are the
\* component-wise minimum and maximum of the triangle's source positions.
C18_AsStated ==
    (gpc = "written" /\ nodeTransform = UnitMatrix) =>
        \A c \in 1 .. 3 :
            /\ bounds.botLeft[c] = Least({ srcVerts[v][c] : v \in 1 .. 3 })
            /\ bounds.topRight[c] = Greatest({ srcVerts[v][c] : v \in 1 .. 3 })

\* The source position (x, y, z) with its axes as loadScene turns them:
\* (x, -z, y).
Turned(p) == <<p[1], -p[3], p[2]>>

\* C18, amended: with unit node transforms the emitted bounds are the
\* component-wise minimum and maximum of the triangle's positions as they are
\* emitted, which are the source positions (x, y, z) turned to (x, -z, y).
C18_BoundsOfTurnedPositions ==
    (gpc = "written" /\ nodeTransform = UnitMatrix) =>
        /\ emitted = [v \in 1 .. 3 |-> Turned(srcVerts[v])]
        /\ \A c \in 1 .. 3 :
              /\ bounds.botLeft[c] = Least({ Turned(srcVerts[v])[c] : v \in 1 .. 3 })
              /\ bounds.topRight[c] = Greatest({ Turned(srcVerts[v])[c] : v \in 1 .. 3 })

\* The triangle (2,-1,-1), (-1,2,-1), (-1,-1,-1) has been written: its
\* bounds are (-1,1,-1) to (2,1,2).
C18_Witness ==
    /\ gpc = "written" /\ nodeTransform = UnitMatrix
    /\ srcVerts = <<<<2, -1, -1>>, <<-1, 2, -1>>, <<-1, -1, -1>>>>
    /\ bounds.botLeft = <<-1, 1, -1>>
    /\ bounds.topRight = <<2, 1, 2>>

(***************************************************************************)
(* normalizeValue between an integer type and float.  A float is kept as   *)
(* the exact ratio [num, den] with den > 0; den = 0 stands for +infinity   *)
(* (num = 1), -infinity (num = -1) and NaN (num = 0).  Rounding to the 24  *)
(* bits of a float's mantissa is left out.                                 *)
(***************************************************************************)
\* The width of uint, the type pow2 shifts in.
UIntBits == 32

IntTypes == [bytes : {1, 2, 4}, signed : BOOLEAN]

\* The largest value of the type; for the 32-bit unsigned type the largest
\* integer held here, 2^31 - 1, stands in for 2^32 - 1.
TypeMax(T) ==
    IF T.bytes = 4 THEN (Pow2(30) - 1) + Pow2(30)
    ELSE Pow2(8 * T.bytes - (IF T.signed THEN 1 ELSE 0)) - 1

TypeMin(T) == IF T.signed THEN -TypeMax(T) - 1 ELSE 0

\* The values of a type looked at: within Margin of its smallest value, of
\* 0, of half its largest value and of its largest value (of ushort_max for
\* the 32-bit unsigned type).
TypeSamples(T) ==
    LET top == IF T.bytes = 4 /\ ~T.signed THEN ushort_max + Margin ELSE TypeMax(T)
        near(c) == { v \in { c + k : k \in (-Margin) .. Margin } :
                        v >= TypeMin(T) /\ v <= top }
    IN  { TypeMin(T) + k : k \in 0 .. Margin } \cup near(0) \cup near(top \div 2)
            \cup { top - k : k \in 0 .. Margin }

\* sizeof(T)*(is_signed<T>::value?7:8), the argument of pow2 (lines 33, 39).
Exponent(T) == T.bytes * (IF T.signed THEN 7 ELSE 8)

\* pow2(i) of common.h:165, 1u<<i.  Shifting a uint by its width is
\* undefined: the builds at hand yield 1 (the count taken modulo 32) or 0.
Pow2Outcomes(i) == IF i < UIntBits THEN {Pow2(i)} ELSE {0, 1}

\* t/(pw-1.f) of line 33.
ToFloat(x, pw) ==
    LET d == pw - 1
    IN  IF d > 0 THEN [num |-> x, den |-> d]
        ELSE IF d < 0 THEN [num |-> -x, den |-> -d]
        ELSE [num |-> IF x > 0 THEN 1 ELSE IF x < 0 THEN -1 ELSE 0, den |-> 0]

\* e > l for a float e and a whole number l.
Greater(e, l) ==
    IF e.den = 0 THEN e.num = 1 ELSE e.num > l * e.den

\* clamp(e, l, h) of common.h:118: ((e > l)?((e > h)?h:e):l).
Clamp(e, l, h) ==
    IF Greater(e, l)
    THEN IF Greater(e, h) THEN [num |-> h, den |-> 1] ELSE e
    ELSE [num |-> l, den |-> 1]

\* The whole part of num/den for den > 0, as a float-to-integer cast takes it.
Truncated(num, den) ==
    IF num >= 0 THEN num \div den ELSE -((-num) \div den)

\* The whole part of e*d for a finite float e.
ScaledWhole(e, d) ==
    IF e.den = d THEN e.num
    ELSE IF e.den = -d THEN -e.num
    ELSE Truncated(e.num * d, e.den)

\* (T)(clamp(t, is_signed?-1.f:0.f, 1.f)*(pw-1.f)) of line 39: the values
\* the cast can yield; a product outside the type makes the cast undefined
\* and any value of the type can come out.
ToIntOutcomes(T, t, pw) ==
    LET p == ScaledWhole(Clamp(t, IF T.signed THEN -1 ELSE 0, 1), pw - 1)
    IN  IF p >= TypeMin(T) /\ p <= TypeMax(T) THEN {p} ELSE TypeSamples(T)

InitNorm ==
    /\ IdleIndex /\ IdleTree /\ IdleAnim /\ IdleBind
    /\ IdleChan /\ IdleLayout /\ IdleCount /\ IdleMain /\ IdleBounds /\ IdleRest
    /\ npc = "int"
    /\ ntype \in IntTypes
    /\ nx \in TypeSamples(ntype)
    /\ nfloat = << >> /\ nback = 0

\* normalizeValue<T,float>(x) (lines 32-34, 67-69).
NormalizeToFloat ==
    /\ npc = "int"
    /\ \E pw \in Pow2Outcomes(Exponent(ntype)) : nfloat' = ToFloat(nx, pw)
    /\ npc' = "float"
    /\ UNCHANGED <<ntype, nx, nback, idxVars, treeVars, animVars, bindVars,
                   chanVars, layoutVars, countVars, mainVars, boundsVars,
                   restVars>>

\* normalizeValue<float,T> of that float (lines 38-40, 67-69).
NormalizeToInt ==
    /\ npc = "float"
    /\ \E pw \in Pow2Outcomes(Exponent(ntype)) :
          nback' \in ToIntOutcomes(ntype, nfloat, pw)
    /\ npc' = "back"
    /\ UNCHANGED <<ntype, nx, nfloat, idxVars, treeVars, animVars, bindVars,
                   chanVars, layoutVars, countVars, mainVars, boundsVars,
                   restVars>>

NextNorm == NormalizeToFloat \/ NormalizeToInt

SpecNorm == InitNorm /\ [][NextNorm]_vars

\* C19 as stated: for every supported integer type and every value x of it,
\* converting x to float and back yields x up to one integer step.
C19_AsStated ==
    npc = "back" =>
        \/ nback = nx
        \/ nx < TypeMax(ntype) /\ nback = nx + 1
        \/ nx > TypeMin(ntype) /\ nback = nx - 1

\* C20 as stated: the float of a value of a signed type lies in [-1,1], that
\* of a value of an unsigned type in [0,1], and the largest value of the type
\* is mapped to 1.
C20_AsStated ==
    npc \in {"float", "back"} =>
        /\ nfloat.den > 0
        /\ nfloat.num <= nfloat.den
        /\ nfloat.num >= (IF ntype.signed THEN -nfloat.den ELSE 0)
        /\ (nx = TypeMax(ntype) /\ (ntype.bytes < 4 \/ ntype.signed))
              => nfloat.num = nfloat.den

(***************************************************************************)
(* half_float: convertToIEEE754<IEEE754_half>(float) and convertToFloat.   *)
(* A float is [cls, neg, sig, ex]: cls is "nan", "inf", "zero" or          *)
(* "finite", neg its sign bit, and a finite float has the magnitude        *)
(* sig * 2^ex with 2^(SigBits-1) <= sig < 2^SigBits.                       *)
(***************************************************************************)
\* The significant bits of the floats looked at (a float has up to 24).
SigBits == 13

\* enum {MANTISSA=10, E_MIN=-14, E_MAX=15, E_NAN=31} of IEEE754_half.
MANTISSA == 10
E_MIN == -14
E_MAX == 15
E_NAN == 31
\* uint16_t e:5, the width of the exponent field.
ExponentBits == 5

\* The significands looked at: the smallest, the largest, their neighbours,
\* one in the middle, and those one half-precision step from either end.
Sigs ==
    LET lo == Pow2(SigBits - 1)
        step == Pow2(SigBits - MANTISSA - 1)
    IN  {lo, lo + 1, lo + step, lo + (lo \div 2) + 1, 2 * lo - step, 2 * lo - 1}

\* The exponents frexp yields for the floats looked at: from the binade
\* below the smallest normal half to the binade above the largest.
FrexpExps == (E_MIN - 1) .. (E_MAX + 2)

Floats ==
    [cls : {"nan", "inf", "zero"}, neg : BOOLEAN, sig : {0}, ex : {0}]
    \cup [cls : {"finite"}, neg : BOOLEAN, sig : Sigs,
          ex : { e - SigBits : e \in FrexpExps }]

\* ldexp(sig, k) cast to an unsigned integer, for a whole number sig.
LdexpWhole(sig, k) == IF k >= 0 THEN sig * Pow2(k) ELSE sig \div Pow2(-k)

\* clamp<int>(e, E_MIN, E_MAX) of line 43 (clamp of common.h:118).
EncodedExponent(e) == IF e > E_MIN THEN (IF e > E_MAX THEN E_MAX ELSE e) ELSE E_MIN

\* convertToIEEE754<IEEE754_half>(float val), lines 38-45.
ConvertToIEEE754(val) ==
    LET sign == IF val.cls \in {"finite", "inf"} /\ val.neg THEN 1 ELSE 0
    IN  IF val.cls = "nan"
        THEN [sign |-> sign, e |-> E_NAN, mantissa |-> Pow2(MANTISSA) - 1]
        ELSE IF val.cls = "inf"
        THEN [sign |-> sign, e |-> E_NAN, mantissa |-> 0]
        ELSE IF val.cls = "zero"
        THEN [sign |-> sign, e |-> 0, mantissa |-> 0]
        ELSE LET e == val.ex + SigBits
                 exp == EncodedExponent(e)
                 shift == MANTISSA + (IF exp # E_MIN THEN 1 ELSE 0) + e - exp
             IN  [sign |-> sign,
                  e |-> (exp - E_MIN) % Pow2(ExponentBits),
                  mantissa |-> LdexpWhole(val.sig, shift - SigBits) % Pow2(MANTISSA)]

\* convertToFloat(IEEE754_half val), lines 56-62; sig is not normalised.
ConvertToFloat(h) ==
    IF h.e = E_NAN
    THEN IF h.mantissa # 0
         THEN [cls |-> "nan", neg |-> FALSE, sig |-> 0, ex |-> 0]
         ELSE [cls |-> "inf", neg |-> h.sign = 1, sig |-> 0, ex |-> 0]
    ELSE IF h.e = 0
    THEN IF h.mantissa = 0
         THEN [cls |-> "zero", neg |-> h.sign = 1, sig |-> 0, ex |-> 0]
         ELSE [cls |-> "finite", neg |-> h.sign = 1, sig |-> h.mantissa,
               ex |-> E_MIN - MANTISSA]
    ELSE [cls |-> "finite", neg |-> h.sign = 1,
          sig |-> h.mantissa + Pow2(MANTISSA),
          ex |-> h.e + E_MIN - MANTISSA - 1]

InitHalf ==
    /\ IdleIndex /\ IdleTree /\ IdleAnim /\ IdleBind
    /\ IdleChan /\ IdleLayout /\ IdleCount /\ IdleMain /\ IdleBounds /\ IdleNorm
    /\ IdleFaces /\ IdleSkel
    /\ hpc = "float"
    /\ hval \in Floats
    /\ hbits = << >> /\ hback = << >>

\* half_float(float f), half_float.h:17.
Encode ==
    /\ hpc = "float"
    /\ hbits' = ConvertToIEEE754(hval)
    /\ hpc' = "half"
    /\ UNCHANGED <<hval, hback, idxVars, treeVars, animVars, bindVars, chanVars,
                   layoutVars, countVars, mainVars, boundsVars, normVars,
                   faceVars, skelVars>>

\* operator float() of half_float, half_float.h:33.
Decode ==
    /\ hpc = "half"
    /\ hback' = ConvertToFloat(hbits)
    /\ hpc' = "back"
    /\ UNCHANGED <<hval, hbits, idxVars, treeVars, animVars, bindVars, chanVars,
                   layoutVars, countVars, mainVars, boundsVars, normVars,
                   faceVars, skelVars>>

NextHalf == Encode \/ Decode

SpecHalf == InitHalf /\ [][NextHalf]_vars

\* The magnitudes of two finite floats as whole numbers of one unit.
Aligned(a, b) ==
    IF a.ex >= b.ex THEN [x |-> a.sig * Pow2(a.ex - b.ex), y |-> b.sig]
    ELSE [x |-> a.sig, y |-> b.sig * Pow2(b.ex - a.ex)]

SameFloat(a, b) ==
    /\ a.cls = b.cls
    /\ a.cls = "finite" => a.neg = b.neg /\ Aligned(a, b).x = Aligned(a, b).y

\* b is within 2^-MANTISSA relative error of the finite float a.
WithinHalfStep(a, b) ==
    /\ b.cls = "finite" /\ b.neg = a.neg
    /\ LET al == Aligned(a, b)
       IN  Abs(al.x - al.y) * Pow2(MANTISSA) <= al.x

\* The magnitude of a finite float lies in [2^E_MIN, 65504], the range of
\* the normal halves: 65504 is (2^(MANTISSA+1) - 1) * 2^(E_MAX - MANTISSA).
InHalfRange(a) ==
    LET e == a.ex + SigBits
    IN  /\ a.cls = "finite"
        /\ e > E_MIN
        /\ \/ e <= E_MAX
           \/ e = E_MAX + 1
              /\ a.sig <= (Pow2(MANTISSA + 1) - 1) * Pow2(SigBits - MANTISSA - 1)

\* The float 1 or -1: 0.5 * 2^1.
IsUnit(a) == a.cls = "finite" /\ a.sig = Pow2(SigBits - 1) /\ a.ex = 1 - SigBits

\* C21 as stated: encoding to half and decoding preserves 0, 1 and -1,
\* preserves +Infinity and -Infinity with their sign and NaN as a NaN, and
\* is within 2^-10 relative error for every finite input of magnitude in
\* [2^-14, 65504].  (The sign bit of a NaN is not asked for here; line 39
\* drops it, val < 0 being false for every NaN.)
C21_AsStated ==
    hpc = "back" =>
        /\ hval.cls = "zero" => hback.cls = "zero"
        /\ IsUnit(hval) => SameFloat(hval, hback)
        /\ hval.cls = "nan" => hback.cls = "nan"
        /\ hval.cls = "inf" => hback.cls = "inf" /\ hback.neg = hval.neg
        /\ InHalfRange(hval) => WithinHalfStep(hval, hback)

(***************************************************************************)
(* VertexFormat on its own: any sequence of addAttribute calls.            *)
(***************************************************************************)
\* Largest number of addAttribute calls on one VertexFormat.
MaxAttributes == 5

\* The template arguments of the calls looked at, size being sizeof(TYPE):
\* uchar x 4, float x 3, float x 4 and double x 4.
AttribKinds ==
    { [size |-> 1, n |-> 4], [size |-> FloatBytes, n |-> 3],
      [size |-> FloatBytes, n |-> 4], [size |-> 2 * FloatBytes, n |-> 4] }

InitFormat ==
    /\ IdleIndex /\ IdleTree /\ IdleAnim /\ IdleBind /\ IdleChan /\ IdleCount
    /\ IdleMain /\ IdleBounds /\ IdleNorm /\ IdleRest
    /\ lpc = "attribs"
    /\ mNumAnimations = 0 /\ meshFlags = << >> /\ nAnim = 0
    /\ format = EmptyFormat /\ accessed = {}

\* One call of VertexFormat::addAttribute<TYPE, n_elem, false>().
AddAnyAttribute ==
    /\ lpc = "attribs"
    /\ Len(format.attributes) < MaxAttributes
    /\ \E k \in AttribKinds : format' = AddAttribute(format, k.size, k.n)
    /\ UNCHANGED <<lpc, mNumAnimations, meshFlags, nAnim, accessed,
                   idxVars, treeVars, animVars, bindVars, chanVars, countVars,
                   mainVars, boundsVars, normVars, restVars>>

NextFormat == AddAnyAttribute

SpecFormat == InitFormat /\ [][NextFormat]_vars

\* The sum of the sizes of the first k attributes of the format.
RECURSIVE SizeSum(_)
SizeSum(k) == IF k = 0 THEN 0 ELSE SizeSum(k - 1) + format.attributes[k].bpa

\* C22 as stated: after any sequence of addAttribute calls the stride is the
\* sum of the attributes' sizes, every attribute's offset is the sum of the
\* sizes of the attributes added before it, and offset + size of every
\* attribute is at most the stride.
C22_AsStated ==
    lpc = "attribs" =>
        /\ format.bpv = SizeSum(Len(format.attributes))
        /\ \A a \in 1 .. Len(format.attributes) :
              /\ format.attributes[a].offset = SizeSum(a - 1)
              /\ format.attributes[a].offset + format.attributes[a].bpa <= format.bpv

(***************************************************************************)
(* The keyframe compressor on tracks long enough for an interior sample to *)
(* follow a dropped one.                                                   *)
(***************************************************************************)
\* Largest number of keys of these tracks.
MaxCurveKeys == 4

\* The first component of their key values, in units: steps that grow, so
\* that a sample can be near the line through its raw neighbours and away
\* from the line through the retained one.
CurveVals == {0, 3, 9, 21}

\* The tracks of n keys at times 0, 1, .., n-1.
CurveTracks(kd, n) ==
    { [j \in 1 .. n |->
         [t |-> j - 1,
          v |-> IF kd = "vec" THEN <<x[j], 0, 0>> ELSE <<x[j], 0, 0, 0>>]] :
      x \in [1 .. n -> CurveVals] }

InitCurve ==
    /\ IdleIndex /\ IdleTree /\ IdleBind /\ IdleLater
    /\ apc = "loop"
    /\ kind \in {"vec", "quat"}
    /\ track \in UNION { CurveTracks(kind, n) : n \in 0 .. MaxCurveKeys }
    /\ keys = track
    /\ ki = 0 /\ ar = << >> /\ out = [len |-> 0, keys |-> << >>] /\ pass = 1

SpecCurve == InitCurve /\ [][NextAnim]_vars

\* Every component of sample i (0-based) of ks is less than the epsilon
\* away from the value interpolated at its time between sample p and
\* sample i+1.
Predicted(ks, p, i) ==
    LET span == ks[i + 2].t - ks[p + 1].t
        part == ks[i + 1].t - ks[p + 1].t
    IN  \A c \in DOMAIN ks[i + 1].v :
           Abs(ks[p + 1].v[c] * (span - part) + ks[i + 2].v[c] * part
               - ks[i + 1].v[c] * span) < EpsilonUnits * span

\* The loop takes its step for an interior sample.
InteriorStep == apc = "loop" /\ ki > 0 /\ ki < Len(keys) - 1 /\ ki' = ki + 1

MaxContribs == 6
\* Bone ids are drawn from 0 .. MaxBoneId.
MaxBoneId == 4

\* The weights of the contributions: none, or one unit.
SlotWeights == {0, 1}

InitSlots ==
    /\ IdleIndex /\ IdleTree /\ IdleAnim /\ IdleLater
    /\ bpc = "slots" /\ bones = << >> /\ bindex = 0 /\ refs = << >>
    /\ meshNo = 1 /\ curNode = "n1" /\ entry = 0 /\ bidx = 0 /\ lastV = 0
    /\ vIdx = [v \in Vertices |-> Zero4]
    /\ vWt = [v \in Vertices |-> [w |-> Zero4, den |-> 1]]
    /\ contrib = << >>

\* Lines 108-116 for one aiVertexWeight of a bone whose id is b.
Contribute ==
    /\ bpc = "slots"
    /\ entry < MaxContribs
    /\ \E b \in 0 .. MaxBoneId, v \in Vertices, w \in SlotWeights :
          /\ bidx' = b
          /\ lastV' = v
          /\ LET c == SlotFor(vIdx[v], vWt[v].w, b)
             IN  IF c = 0
                 THEN UNCHANGED <<vIdx, vWt>>
                 ELSE /\ vIdx' = [vIdx EXCEPT ![v][c] = b]
                      /\ vWt' = [vWt EXCEPT ![v].w[c] = w]
    /\ entry' = entry + 1
    /\ UNCHANGED <<bpc, bones, bindex, refs, meshNo, curNode, contrib,
                   idxVars, treeVars, animVars, laterVars>>

NextSlots == Contribute

SpecSlots == InitSlots /\ [][NextSlots]_vars

\* The slots of vertex v that bone b holds: a slot with id 0 and weight 0 is
\* as the zero-filled buffer left it and is held by no bone.
HeldBy(v, b) ==
    { c \in 1 .. 4 : vIdx[v][c] = b /\ (b # 0 \/ vWt[v].w[c] # 0) }

\* The slots of vertex v whose weight is 0.
FreeSlots(v) == { c \in 1 .. 4 : vWt[v].w[c] = 0 }

\* The least member of a non-empty set of slots.
FirstOf(S) == CHOOSE c \in S : \A d \in S : c <= d

\* Exactly slot c of vertex v is written in the step, or none when c is 0.
WrittenOnly(v, c) ==
    /\ \A d \in (1 .. 4) \ {c} : vIdx'[v][d] = vIdx[v][d] /\ vWt'[v].w[d] = vWt[v].w[d]
    /\ c # 0 => vIdx'[v][c] = bidx'
    /\ \A u \in Vertices \ {v} : vIdx'[u] = vIdx[u] /\ vWt'[u] = vWt[u]

\* C24 as stated: the slot a contribution is written to is the slot already
\* assigned to its bone id if the vertex has one, otherwise the first slot
\* whose weight is 0; if neither exists the contribution is dropped.
C24_AsStated ==
    [][(bpc = "slots" /\ entry' = entry + 1) =>
          LET v == lastV'
          IN  WrittenOnly(v, IF HeldBy(v, bidx') # {} THEN FirstOf(HeldBy(v, bidx'))
                             ELSE IF FreeSlots(v) # {} THEN FirstOf(FreeSlots(v))
                             ELSE 0)]_vars

\* C29 as stated: after any sequence of weight contributions, no vertex has
\* two slots with non-zero weight that carry the same bone id.
C29_AsStated ==
    \A v \in Vertices :
        \A c, d \in 1 .. 4 :
            (c # d /\ vWt[v].w[c] # 0 /\ vWt[v].w[d] # 0) => vIdx[v][c] # vIdx[v][d]

(***************************************************************************)
(* loadTree: the name-to-index map and the layout of the flattened array.  *)
(***************************************************************************)
\* The nodes of the scene that carry no mesh.
Meshless == { i \in 1 .. scene.n : scene.meshes[i] = 0 }

\* The first node of a name among the nodes without meshes, in traversal
\* order (the nodes are numbered in the order loadTree visits them).
FirstNamed(name) ==
    CHOOSE i \in Meshless :
        /\ scene.name[i] = name
        /\ \A j \in Meshless : scene.name[j] = name => i <= j

\* C25: when loadTree has returned, the name-to-index map contains exactly
\* the names of the nodes without meshes, each with the index of the first
\* such node of that name in traversal order; and no step ever changes or
\* removes an entry of the map.
C25_FirstNameWins ==
    /\ [](TreeDone =>
            /\ DOMAIN node_map = { scene.name[i] : i \in Meshless }
            /\ \A name \in DOMAIN node_map : node_map[name] = SlotOf(FirstNamed(name)))
    /\ [][\A name \in DOMAIN node_map :
             name \in DOMAIN node_map' /\ node_map'[name] = node_map[name]]_vars

\* A finished flattening of a tree in which two nodes without meshes share a
\* name and a node with a mesh has a name of its own.
C25_Witness ==
    /\ TreeDone
    /\ \E i, j \in Meshless : i < j /\ scene.name[i] = scene.name[j]
    /\ \E k \in (1 .. scene.n) \ Meshless : scene.name[k] \notin DOMAIN node_map

\* C28: when loadTree has returned, every node of the tree is in exactly one
\* slot of the flattened array, the array is as long as the tree has nodes,
\* the root is at index 0, and the children of the node at a slot are in the
\* slots firstChild .. firstChild + childCount - 1, in child order.
C28_ContiguousChildren ==
    TreeDone =>
        /\ Len(nodes) = scene.n
        /\ \A node \in 1 .. scene.n :
              Cardinality({ j \in 1 .. Len(nodes) : nodes[j].node = node }) = 1
        /\ nodes[1].node = 1
        /\ \A j \in 1 .. Len(nodes) :
              LET kids == Children(nodes[j].node)
              IN  \A i \in 1 .. Len(kids) :
                     /\ nodes[j].childIdx + i <= Len(nodes)
                     /\ nodes[nodes[j].childIdx + i].node = kids[i]

\* A finished flattening of a tree whose root has two children, the first of
\* them with two children of its own.
C28_Witness ==
    /\ TreeDone
    /\ scene.n >= 5
    /\ Len(Children(1)) = 2
    /\ Len(Children(Children(1)[1])) = 2
    /\ nodes[1].childIdx = 1
    /\ nodes[2].childIdx = 3

(***************************************************************************)
(* The indices of an export: getVertexCount, IndexFormat iformat(vcount)   *)
(* and the face loop of loadMesh, for meshes that are all usable and have  *)
(* one face each, whose indices are below the mesh's vertex count.         *)
(***************************************************************************)
\* Largest number of meshes of such an export.
MaxFaceMeshes == 2

\* mNumVertices of a mesh: small, or around the two thresholds of
\* IndexFormat.
FaceMeshSizes ==
    {1, 2} \cup ((uchar_max - 2) .. (uchar_max + 1))
           \cup ((ushort_max - 2) .. (ushort_max + 1))

\* mFaces[0].mIndices of a mesh of nv vertices: its lowest or its highest
\* vertices.
FacesOf(nv) ==
    { <<0, Min(1, nv - 1), Min(2, nv - 1)>>,
      <<nv - 1, Max(nv - 2, 0), Max(nv - 3, 0)>> }

RECURSIVE SizeTotal(_, _)
\* The sum of the first k sizes of a sequence.
SizeTotal(sizes, k) == IF k = 0 THEN 0 ELSE SizeTotal(sizes, k - 1) + sizes[k]

InitFaces ==
    /\ IdleTree /\ IdleAnim /\ IdleBind
    /\ IdleChan /\ IdleLayout /\ IdleCount /\ IdleMain /\ IdleBounds /\ IdleNorm
    /\ IdleHalf /\ IdleSkel
    /\ ipc = "count"
    /\ fmeshes \in UNION { [1 .. n -> FaceMeshSizes] : n \in 1 .. MaxFaceMeshes }
    /\ vertex_count = 0 /\ bpi = 0 /\ indices = << >>
    /\ fmesh = 0 /\ fvoff = 0 /\ fargs = << >>

\* getVertexCount (lines 37-43, called at line 223): vcount.
CountVertices ==
    /\ ipc = "count"
    /\ vertex_count' = SizeTotal(fmeshes, Len(fmeshes))
    /\ ipc' = "new"
    /\ UNCHANGED <<bpi, indices, fmeshes, fmesh, fvoff, fargs, halfVars, skelVars,
                   treeVars, animVars, bindVars, chanVars, layoutVars, countVars,
                   mainVars, boundsVars, normVars>>

\* IndexFormat iformat(vcount); IndexBuffer indices(&iformat, icount) (line 228).
MakeIndexFormat ==
    /\ ipc = "new"
    /\ bpi' = IndexWidth(vertex_count)
    /\ ipc' = "load"
    /\ UNCHANGED <<vertex_count, indices, fmeshes, fmesh, fvoff, fargs, halfVars, skelVars,
                   treeVars, animVars, bindVars, chanVars, layoutVars, countVars,
                   mainVars, boundsVars, normVars>>

\* loadMesh for the next mesh: the face loop of lines 93-95 and
\* voff += mesh->mNumVertices of line 136.
LoadFaces ==
    /\ ipc = "load"
    /\ fmesh < Len(fmeshes)
    /\ \E face \in FacesOf(fmeshes[fmesh + 1]) :
          /\ fargs' = fargs \o [i \in 1 .. 3 |-> face[i] + fvoff]
          /\ indices' = indices \o [i \in 1 .. 3 |-> StoredIndex(bpi, face[i] + fvoff)]
    /\ fvoff' = fvoff + fmeshes[fmesh + 1]
    /\ fmesh' = fmesh + 1
    /\ UNCHANGED <<ipc, vertex_count, bpi, fmeshes, halfVars, skelVars,
                   treeVars, animVars, bindVars, chanVars, layoutVars, countVars,
                   mainVars, boundsVars, normVars>>

NextFaces == CountVertices \/ MakeIndexFormat \/ LoadFaces

SpecFaces == InitFaces /\ [][NextFaces]_vars

\* The largest value a field of width bytes holds, the 4-byte width being
\* that of the uint handed in.
FitsWidth(width, value) == width >= 4 \/ value < Pow2(8 * width)

\* C26: every index loadMesh writes, the face index plus the mesh's vertex
\* offset, is smaller than the emitted vertex count, fits the index width
\* IndexFormat chose for that count, and is stored as it was handed in.
C26_IndicesFit ==
    ipc = "load" =>
        /\ Len(indices) = Len(fargs)
        /\ \A k \in 1 .. Len(fargs) :
              /\ fargs[k] < vertex_count
              /\ FitsWidth(bpi, fargs[k])
              /\ indices[k] = fargs[k]

\* Two meshes of 255 vertices together: the width is 2 bytes, and the
\* second mesh's face was written with the offset of the first, up to the
\* index 254.
C26_Witness ==
    /\ ipc = "load" /\ fmesh = 2
    /\ vertex_count = uchar_max /\ bpi = 2
    /\ fvoff = uchar_max
    /\ indices[4] = uchar_max - 1
    /\ fmeshes[1] > 1

(***************************************************************************)
(* The bones of an export with animations: the bone loop and the fallback  *)
(* of loadMesh for every node generateMesh visits, then the node table of  *)
(* loadScene.  A mesh has one vertex and at most one mBones entry, which   *)
(* carries the name of a node of the scene.                                *)
(***************************************************************************)
\* Largest number of nodes of such an export.
MaxSkelNodes == 2

\* What a node can be: without a mesh, with a mesh without bones, or with a
\* mesh whose one bone gives the vertex the weight w.
SkelNodeKinds ==
    { [name |-> nm, mesh |-> "none", bone |-> "", w |-> 0] : nm \in NodeNames }
    \cup { [name |-> nm, mesh |-> "static", bone |-> "", w |-> 0] : nm \in NodeNames }
    \cup { [name |-> nm, mesh |-> "skinned", bone |-> b, w |-> w] :
             nm \in NodeNames, b \in NodeNames, w \in SlotWeights }

\* The scenes: the nodes in pre-order, every bone named after a node.
SkelScenes ==
    { ns \in UNION { [1 .. n -> SkelNodeKinds] : n \in 1 .. MaxSkelNodes } :
        \A k \in 1 .. Len(ns) :
            ns[k].mesh = "skinned" => \E j \in 1 .. Len(ns) : ns[j].name = ns[k].bone }

InitSkel ==
    /\ IdleIndex /\ IdleTree /\ IdleAnim
    /\ IdleChan /\ IdleLayout /\ IdleCount /\ IdleMain /\ IdleBounds /\ IdleNorm
    /\ IdleHalf /\ IdleFaces
    /\ bpc = "skeleton" /\ bones = << >> /\ bindex = 0 /\ refs = << >>
    /\ meshNo = 0 /\ curNode = "" /\ entry = 0 /\ bidx = 0 /\ lastV = 0
    /\ vIdx = << >> /\ vWt = << >> /\ contrib = << >>
    /\ skpc = "generate"
    /\ skNodes \in SkelScenes
    /\ skNext = 0 /\ skVerts = {} /\ skTable = << >>

\* The key the node table looks a node up by (line 248).
TableKey(node) == IF node.mesh = "none" THEN node.name ELSE AutoName(node.name)

\* generateMesh on the next node (lines 142-144): loadMesh for its mesh, if
\* it has one.  Lines 100-116 for the mesh's bone, lines 118-128 or 130-134
\* for the fallback.
GenerateSkelNode ==
    /\ skpc = "generate"
    /\ skNext < Len(skNodes)
    /\ LET node == skNodes[skNext + 1]
           auto == AutoName(node.name)
           tr == [kind |-> "node", mesh |-> skNext + 1, entry |-> 0]
           otr == [kind |-> "offset", mesh |-> skNext + 1, entry |-> 1]
           b == LookupId(bones, bindex, node.bone)
           tab1 == Registered(bones, bindex, node.bone, otr)
           index1 == IndexAfter(bones, bindex, node.bone)
           c == SlotFor(Zero4, Zero4, b)
           idx1 == [Zero4 EXCEPT ![c] = b]
           wt1 == [Zero4 EXCEPT ![c] = node.w]
       IN  CASE node.mesh = "none" ->
                  UNCHANGED <<bones, bindex, skVerts>>
             [] node.mesh = "static" ->
                  /\ bones' = Registered(bones, bindex, auto, tr)
                  /\ bindex' = IndexAfter(bones, bindex, auto)
                  /\ skVerts' = skVerts \cup
                        { [idx |-> <<LookupId(bones, bindex, auto), 0, 0, 0>>,
                           wt |-> <<1, 0, 0, 0>>] }
             [] node.mesh = "skinned" /\ wt1[1] = 0 ->
                  /\ bones' = Registered(tab1, index1, auto, tr)
                  /\ bindex' = IndexAfter(tab1, index1, auto)
                  /\ skVerts' = skVerts \cup
                        { [idx |-> <<LookupId(tab1, index1, auto), 0, 0, 0>>,
                           wt |-> <<1, 0, 0, 0>>] }
             [] node.mesh = "skinned" /\ wt1[1] # 0 ->
                  /\ bones' = tab1
                  /\ bindex' = index1
                  /\ skVerts' = skVerts \cup { [idx |-> idx1, wt |-> wt1] }
    /\ skNext' = skNext + 1
    /\ skpc' = IF skNext + 1 = Len(skNodes) THEN "table" ELSE "generate"
    /\ UNCHANGED <<skNodes, skTable, bpc, refs, meshNo, curNode, entry, bidx, lastV,
                   vIdx, vWt, contrib, halfVars, faceVars,
                   idxVars, treeVars, animVars, chanVars, layoutVars, countVars,
                   mainVars, boundsVars, normVars>>

\* Lines 244-252: the boneId of every node, -1 for a node whose key is not
\* in the table of bones.
WriteSkeleton ==
    /\ skpc = "table"
    /\ skTable' = [j \in 1 .. Len(skNodes) |->
                     IF TableKey(skNodes[j]) \in DOMAIN bones
                     THEN bones[TableKey(skNodes[j])].id ELSE -1]
    /\ skpc' = "written"
    /\ UNCHANGED <<skNodes, skNext, skVerts, bindVars, halfVars, faceVars,
                   idxVars, treeVars, animVars, chanVars, layoutVars, countVars,
                   mainVars, boundsVars, normVars>>

NextSkel == GenerateSkelNode \/ WriteSkeleton

SpecSkel == InitSkel /\ [][NextSkel]_vars

\* C30: in an export with animations, every bone id an emitted vertex
\* refers to with a weight that is not 0 is the boneId written for at least
\* one node of the skeleton table.
C30_AsStated ==
    skpc = "written" =>
        \A v \in skVerts : \A c \in 1 .. 4 :
            v.wt[c] # 0 => \E j \in 1 .. Len(skTable) : skTable[j] = v.idx[c]

====
